---------------------------- MODULE Spec2Model ----------------------------
(***************************************************************************)
(* Model of the CO2 billing tool: the batch loader of billing CSV files    *)
(* (co2tool/core/loader.py, co2tool/core/cleaner.py), the emission         *)
(* processor (co2tool/core/processor.py), the data utilities               *)
(* (co2tool/utils/data_utils.py) and the handlers of the main window       *)
(* (co2tool/ui/main_window.py).                                            *)
(*                                                                         *)
(* A text value is a sequence of one-character strings; "NBSP" and "NNBSP" *)
(* stand for the characters U+00A0 and U+202F.  A table cell is a record   *)
(* [t, s, m, e]: t = "str" (text s), "float" (the decimal m / 10^e),       *)
(* "nan" (float NaN, the missing value of pandas) or "none" (None).        *)
(***************************************************************************)
EXTENDS Integers, Sequences, FiniteSets, TLC

VARIABLES
    \* load_billing_csv_files
    file_paths,       \* the argument: what each file holds and how it decodes
    pc,               \* "loop", "returned" or "raised"
    i,                \* position of the for loop in file_paths
    dataframes,       \* tables of the files loaded so far
    included_files,   \* paths of the files loaded so far
    excluded_files,   \* [file, reason] of the files excluded so far
    error,            \* the exception that left the call, "" when none
    df_all,           \* the returned combined table
    rapport           \* the returned report

loaderVars == <<file_paths, pc, i, dataframes, included_files, excluded_files,
                error, df_all, rapport>>

VARIABLES
    \* process_billing_with_co2 and its caller
    df_billing,               \* the caller's billing table
    df_co2,                   \* the caller's CO2 reference table
    filter_missing_articles,  \* the flag of the last call
    proc_pc,                  \* "idle", "ready", "processed", "reprocessed", "raised"
    df_result,                \* the table returned by the call on df_billing
    df_result2                \* the table returned by the call on df_result

procVars == <<df_billing, df_co2, filter_missing_articles, proc_pc, df_result,
              df_result2>>

VARIABLES
    \* filter_data_by_date_range
    date_df,        \* the argument df
    start_date,     \* the argument start_date
    end_date,       \* the argument end_date
    date_pc,        \* "idle", "ready", "returned" or "raised"
    date_error,     \* the exception that left the call, "" when none
    in_period,      \* the first returned table
    out_period      \* the second returned table

dateVars == <<date_df, start_date, end_date, date_pc, date_error, in_period,
              out_period>>

VARIABLES
    \* the numeric parsers applied to one value
    token,        \* the value to parse
    parse_pc,     \* "idle", "cleaner", "utils", "config" or "done"
    by_cleaner,   \* the result of cleaner.try_parse_float
    by_utils,     \* the result of data_utils.parse_float
    by_config     \* the result of the parse_float of load_co2_config_csv

parseVars == <<token, parse_pc, by_cleaner, by_utils, by_config>>

VARIABLES
    \* clean_numero_article_column
    key_df,       \* the argument df
    key_pc,       \* "idle", "ready", "cleaned" or "recleaned"
    key_once,     \* the table returned by the call on key_df
    key_twice     \* the table returned by the call on key_once

keyVars == <<key_df, key_pc, key_once, key_twice>>

VARIABLES
    \* load_co2_config_csv
    config_path,  \* the file at config_path: what pd.read_csv does with it
    cfg_pc,       \* "idle", "ready", "returned" or "raised"
    cfg_mapping,  \* the position in mapping_possibles of the mapping applied, 0 for none
    co2_config,   \* the table returned
    cfg_error     \* the exception raised

cfgVars == <<config_path, cfg_pc, cfg_mapping, co2_config, cfg_error>>

VARIABLES
    \* load_csv_with_encoding
    enc_file,     \* the file at file_path: what pd.read_csv does with it per encoding
    enc_pc,       \* "idle", "loop", "returned" or "raised"
    enc_i,        \* the position in encodings of the encoding tried next
    enc_result,   \* the table returned and the encoding that decoded it
    enc_error     \* the exception raised

encVars == <<enc_file, enc_pc, enc_i, enc_result, enc_error>>

VARIABLES
    \* MainWindow
    self_df_billing_raw,      \* self.df_billing_raw, None while the attribute is not set
    self_df_billing,          \* self.df_billing
    self_df_non_period,       \* self.df_non_period
    self_co2_config,          \* self.co2_config
    self_df_result,           \* self.df_result
    process_buttons_enabled,  \* process_keep_all_button and process_filter_button
    export_button_enabled,    \* export_button
    filter_enabled,           \* app_config.filter_enabled
    filter_window,            \* app_config.filter_start_date and filter_end_date
    win_pc                    \* "idle" or "shown"

winVars == <<self_df_billing_raw, self_df_billing, self_df_non_period, self_co2_config,
             self_df_result, process_buttons_enabled, export_button_enabled,
             filter_enabled, filter_window, win_pc>>

appVars == <<cfgVars, encVars, winVars>>

utilVars == <<dateVars, parseVars, keyVars, appVars>>

vars == <<loaderVars, procVars, utilVars>>

---------------------------------------------------------------------------
\* Bounds of the model.

MaxFiles == 2
MaxRows == 2
MaxBillingRows == 2
MaxRefRows == 2

---------------------------------------------------------------------------
\* Sequences and tables.

Range(f) == {f[k] : k \in DOMAIN f}

SeqsUpTo(S, n) == UNION {[1..k -> S] : k \in 0..n}

RECURSIVE Count(_, _)
Count(s, c) ==
    IF s = <<>> THEN 0
    ELSE (IF Head(s) = c THEN 1 ELSE 0) + Count(Tail(s), c)

\* s.replace(c, "")
RECURSIVE Remove(_, _)
Remove(s, c) ==
    IF s = <<>> THEN <<>>
    ELSE IF Head(s) = c THEN Remove(Tail(s), c)
    ELSE <<Head(s)>> \o Remove(Tail(s), c)

\* s.replace(c, d)
Replace(s, c, d) == [k \in DOMAIN s |-> IF s[k] = c THEN d ELSE s[k]]

Whitespace == {" ", "NBSP", "NNBSP"}

RECURSIVE LStrip(_)
LStrip(s) ==
    IF s # <<>> /\ Head(s) \in Whitespace THEN LStrip(Tail(s)) ELSE s

RECURSIVE RStrip(_)
RStrip(s) ==
    IF s # <<>> /\ s[Len(s)] \in Whitespace
    THEN RStrip(SubSeq(s, 1, Len(s) - 1)) ELSE s

\* s.strip()
Strip(s) == RStrip(LStrip(s))

---------------------------------------------------------------------------
\* Cells.

Str(s) == [t |-> "str", s |-> s, m |-> 0, e |-> 0]
NaN == [t |-> "nan", s |-> <<>>, m |-> 0, e |-> 0]
None == [t |-> "none", s |-> <<>>, m |-> 0, e |-> 0]
\* The outcome of a conversion that raises ValueError.
ValueError == [t |-> "ValueError", s |-> <<>>, m |-> 0, e |-> 0]

\* m / 10^e without trailing decimal zeros, so that equal numbers are equal cells.
RECURSIVE Flt(_, _)
Flt(m, e) ==
    IF e > 0 /\ m % 10 = 0 THEN Flt(m \div 10, e - 1)
    ELSE [t |-> "float", s |-> <<>>, m |-> m, e |-> e]

\* pd.isnull(val)
isnull(val) == val.t \in {"nan", "none"}

Digits == {"0", "1", "2", "3", "4", "5", "6", "7", "8", "9"}

DigitVal(c) ==
    CASE c = "0" -> 0 [] c = "1" -> 1 [] c = "2" -> 2 [] c = "3" -> 3
      [] c = "4" -> 4 [] c = "5" -> 5 [] c = "6" -> 6 [] c = "7" -> 7
      [] c = "8" -> 8 [] c = "9" -> 9

DigitChar(d) ==
    CASE d = 0 -> "0" [] d = 1 -> "1" [] d = 2 -> "2" [] d = 3 -> "3"
      [] d = 4 -> "4" [] d = 5 -> "5" [] d = 6 -> "6" [] d = 7 -> "7"
      [] d = 8 -> "8" [] d = 9 -> "9"

AllDigits(s) == \A k \in DOMAIN s : s[k] \in Digits

RECURSIVE DigitsVal(_)
DigitsVal(s) ==
    IF s = <<>> THEN 0
    ELSE 10 * DigitsVal(SubSeq(s, 1, Len(s) - 1)) + DigitVal(s[Len(s)])

RECURSIVE NatStr(_)
NatStr(n) ==
    IF n < 10 THEN <<DigitChar(n)>>
    ELSE NatStr(n \div 10) \o <<DigitChar(n % 10)>>

RECURSIVE Pow10(_)
Pow10(e) == IF e = 0 THEN 1 ELSE 10 * Pow10(e - 1)

RECURSIVE ZeroPad(_, _)
ZeroPad(s, n) == IF Len(s) >= n THEN s ELSE ZeroPad(<<"0">> \o s, n)

\* The decimal numeral ip "." fp (fp empty when there is no point).
Decimal(ip, fp, sign) ==
    IF AllDigits(ip) /\ AllDigits(fp) /\ Len(ip) + Len(fp) >= 1
    THEN Flt(sign * DigitsVal(ip \o fp), Len(fp))
    ELSE ValueError

\* The position of the first c in s, Len(s) + 1 when there is none.
RECURSIVE Find(_, _)
Find(s, c) ==
    IF s = <<>> \/ Head(s) = c THEN 1 ELSE 1 + Find(Tail(s), c)

\* float(s) of Python for a text s whose characters are digits, ".", ",",
\* "-", "+", whitespace and lower-case letters other than e, i, f: optional
\* surrounding whitespace, an optional sign, then "nan" or a decimal numeral
\* with at least one digit and at most one point.  ValueError otherwise.
PyFloat(s) ==
    LET Split(body, p, sign) ==
            Decimal(SubSeq(body, 1, p - 1), SubSeq(body, p + 1, Len(body)), sign)
        Unsigned(body, sign) ==
            IF body = <<"n", "a", "n">> THEN NaN
            ELSE Split(body, Find(body, "."), sign)
        Signed(t) ==
            Unsigned(IF t # <<>> /\ Head(t) \in {"-", "+"} THEN Tail(t) ELSE t,
                     IF t # <<>> /\ Head(t) = "-" THEN 0 - 1 ELSE 1)
    IN  Signed(Strip(s))

\* str(x) of a float x = m / 10^e, mag its absolute value times 10^e.
FloatStr(mag, e, neg) ==
    (IF neg THEN <<"-">> ELSE <<>>)
    \o NatStr(mag \div Pow10(e)) \o <<".">>
    \o (IF e = 0 THEN <<"0">> ELSE ZeroPad(NatStr(mag % Pow10(e)), e))

\* str(val)
py_str(val) ==
    CASE val.t = "str" -> val.s
      [] val.t = "nan" -> <<"n", "a", "n">>
      [] val.t = "none" -> <<"N", "o", "n", "e">>
      [] val.t = "float" ->
            FloatStr(IF val.m < 0 THEN 0 - val.m ELSE val.m, val.e, val.m < 0)

\* float(str(val)) as the loader's diagnostic calls it.
FloatOfStr(val) == PyFloat(py_str(val))

---------------------------------------------------------------------------
\* co2tool/core/cleaner.py

RECURSIVE Groups3(_)
\* (,\d{3})* up to the end of s
Groups3(s) ==
    \/ s = <<>>
    \/ /\ Len(s) >= 4
       /\ s[1] = ","
       /\ AllDigits(SubSeq(s, 2, 4))
       /\ Groups3(SubSeq(s, 5, Len(s)))

\* re.match(r"^\d{1,3}(,\d{3})*(\.\d+)?$", s)
MatchGrouped(s) ==
    LET IntPart(ip, c) ==
            /\ c - 1 \in 1..3
            /\ AllDigits(SubSeq(ip, 1, c - 1))
            /\ Groups3(SubSeq(ip, c, Len(ip)))
        Parts(ip, fp, dotted) ==
            /\ IntPart(ip, Find(ip, ","))
            /\ (dotted => (fp # <<>> /\ AllDigits(fp)))
        At(p) == Parts(SubSeq(s, 1, p - 1), SubSeq(s, p + 1, Len(s)), p <= Len(s))
    IN  At(Find(s, "."))

\* The position of the last c in s, 0 when there is none.
RECURSIVE FindLast(_, _)
FindLast(s, c) ==
    IF s = <<>> THEN 0
    ELSE IF s[Len(s)] = c THEN Len(s)
    ELSE FindLast(SubSeq(s, 1, Len(s) - 1), c)

\* parts = s.split("."); "".join(parts[:-1]) + "." + parts[-1]
KeepLastDot(s) ==
    LET At(last) ==
            Remove(SubSeq(s, 1, last - 1), ".") \o <<".">> \o SubSeq(s, last + 1, Len(s))
    IN  At(FindLast(s, "."))

\* Lines 18-26 of cleaner.py: the separators of the stripped text s.
Separators(s) ==
    IF MatchGrouped(s) THEN Remove(s, ",")
    ELSE IF Count(s, ",") = 1 /\ Count(s, ".") = 0 THEN Replace(s, ",", ".")
    ELSE IF Count(s, ".") > 1 THEN KeepLastDot(s)
    ELSE s

try_parse_float(val) ==
    LET Result(f) == IF f.t = "ValueError" THEN None ELSE f
    IN  IF isnull(val) THEN None
        ELSE Result(PyFloat(Separators(
                 Remove(Remove(Remove(Strip(py_str(val)), "NNBSP"), "NBSP"), " "))))

\* Series.apply(func): the results become a float column, None turning into
\* NaN, unless every result is None: then the column stays a column of None.
SeriesApply(vals) ==
    IF \A k \in DOMAIN vals : vals[k] = None THEN vals
    ELSE [k \in DOMAIN vals |-> IF vals[k] = None THEN NaN ELSE vals[k]]

\* df with the cells of column col replaced by vals.
SetColumn(df, col, vals) ==
    [df EXCEPT !.rows = [k \in DOMAIN df.rows |-> [df.rows[k] EXCEPT ![col] = vals[k]]]]

\* df = df.copy(); df[col] = df[col].apply(try_parse_float)
clean_quantity_column(df, col) ==
    SetColumn(df, col,
              SeriesApply([k \in DOMAIN df.rows |-> try_parse_float(df.rows[k][col])]))

---------------------------------------------------------------------------
\* co2tool/core/loader.py: load_billing_csv_files

EmptyTable == [cols |-> <<>>, rows |-> <<>>]

column_mapping ==
    [ID_MATERIAL |-> "numero_article", QUANTITY |-> "quantite", AMOUNT_NET |-> "prix"]

mapping_order == <<"ID_MATERIAL", "QUANTITY", "AMOUNT_NET">>

required_cols == {"numero_article", "quantite", "prix"}

\* [col for col in column_mapping if col not in df.columns]
MissingColumns(df) ==
    SelectSeq(mapping_order, LAMBDA c : c \notin Range(df.cols))

RenameCol(mapping, c) == IF c \in DOMAIN mapping THEN mapping[c] ELSE c

\* df.rename(columns=mapping)
Rename(df, mapping) ==
    [cols |-> [k \in DOMAIN df.cols |-> RenameCol(mapping, df.cols[k])],
     rows |-> [k \in DOMAIN df.rows |->
                  [c2 \in {RenameCol(mapping, c) : c \in Range(df.cols)} |->
                      df.rows[k][CHOOSE c \in Range(df.cols) : RenameCol(mapping, c) = c2]]]]

\* df[col].astype(float) succeeds
AsTypeFloatOk(df, col) ==
    \A k \in DOMAIN df.rows :
        df.rows[k][col].t = "str" => PyFloat(df.rows[k][col].s) # ValueError

\* The positions of 1..n that are in Keep, ascending.
RECURSIVE Positions(_, _)
Positions(n, Keep) ==
    IF n = 0 THEN <<>>
    ELSE Positions(n - 1, Keep) \o (IF n \in Keep THEN <<n>> ELSE <<>>)

\* fr with its exception set.
Raise(fr, exc) == [fr EXCEPT !.exc = exc]

\* df[~problematic_mask].copy(): the rows whose label the mask leaves False.
DropMasked(fr, mask) ==
    LET Take(pos) ==
            [fr EXCEPT !.rows = [k \in DOMAIN pos |-> fr.rows[pos[k]]],
                       !.index = [k \in DOMAIN pos |-> fr.index[pos[k]]]]
    IN  Take(Positions(Len(fr.rows), {k \in DOMAIN fr.rows : fr.index[k] \notin mask}))

\* Lines 43-63 for one column.  fr is the table with its row labels (index)
\* and the exception raised so far ("" when none).  problematic_mask has the
\* positions 0..n-1; a row that float(str(val)) rejects sets the position
\* equal to its LABEL (IndexError when there is no such position);
\* df[~problematic_mask] aligns the mask on the labels (IndexingError when a
\* label of df is no label of the mask).
Diagnose(fr, col) ==
    LET Final(out) ==
            IF AsTypeFloatOk(out, col) THEN out ELSE Raise(fr, "ValueError")
        Marked(n, bad) ==
            IF \E k \in bad : fr.index[k] >= n THEN Raise(fr, "IndexError")
            ELSE IF bad = {} THEN Final(fr)
            ELSE IF Range(fr.index) # 0..(n - 1) THEN Raise(fr, "IndexingError")
            ELSE Final(DropMasked(fr, {fr.index[k] : k \in bad}))
    IN  IF fr.exc # "" THEN fr
        ELSE Marked(Len(fr.rows),
                    {k \in DOMAIN fr.rows : FloatOfStr(fr.rows[k][col]) = ValueError})

\* Lines 68-73.
StrictCheck(fr) ==
    IF fr.exc # "" THEN fr
    ELSE IF ~AsTypeFloatOk(fr, "prix") \/ ~AsTypeFloatOk(fr, "quantite")
    THEN Raise(fr, "ValueError")
    ELSE fr

\* The table df with the row labels 0..n-1 that pd.read_csv gives it.
Frame(df, exc) ==
    [cols |-> df.cols, rows |-> df.rows,
     index |-> [k \in DOMAIN df.rows |-> k - 1], exc |-> exc]

\* Lines 26-73: the body run on the table that the latin1 read returned.
MapAndValidate(df) ==
    LET Checked(cleaned) ==
            Frame(cleaned, IF required_cols \subseteq Range(cleaned.cols)
                           THEN "" ELSE "ValueError")
    IN  IF MissingColumns(df) # <<>> THEN Frame(df, "ValueError")
        ELSE StrictCheck(Diagnose(Diagnose(
                 Checked(clean_quantity_column(Rename(df, column_mapping), "quantite")),
                 "prix"), "quantite"))

\* The columns of the tables dfs, each once, in the order they first appear.
RECURSIVE ConcatCols(_, _)
ConcatCols(dfs, seen) ==
    IF dfs = <<>> THEN seen
    ELSE ConcatCols(Tail(dfs),
                    seen \o SelectSeq(Head(dfs).cols, LAMBDA c : c \notin Range(seen)))

RECURSIVE ConcatRows(_)
ConcatRows(dfs) ==
    IF dfs = <<>> THEN <<>> ELSE Head(dfs).rows \o ConcatRows(Tail(dfs))

\* The rows over the columns cols, NaN where a row has no such column.
Reindexed(cols, rows) ==
    [cols |-> cols,
     rows |-> [k \in DOMAIN rows |->
                  [c \in Range(cols) |->
                      IF c \in DOMAIN rows[k] THEN rows[k][c] ELSE NaN]]]

\* pd.concat(dataframes, ignore_index=True)
Concat(dfs) == Reindexed(ConcatCols(dfs, <<>>), ConcatRows(dfs))

EmptyReport ==
    [fichiers_inclus |-> <<>>, fichiers_exclus |-> <<>>,
     nb_fichiers_inclus |-> 0, nb_fichiers_exclus |-> 0]

\* The texts of the quantity and price cells of the files of the model.
QuantityTokens == {<<"5">>, <<"a", "b", "c">>}
PriceTokens == {<<"1", "0">>, <<"1", ",", "5">>, <<"a", "b", "c">>}

\* LINE is a business column that the loader passes through; it holds the
\* position of the row in its file.
RawCols == <<"ID_MATERIAL", "QUANTITY", "AMOUNT_NET", "LINE">>

RawRow(q, p, k) ==
    [ID_MATERIAL |-> Str(<<"7">>), QUANTITY |-> Str(q), AMOUNT_NET |-> Str(p),
     LINE |-> Str(NatStr(k))]

RawTables ==
    {[cols |-> RawCols, rows |-> [k \in DOMAIN r |-> RawRow(r[k][1], r[k][2], k)]] :
        r \in SeqsUpTo(QuantityTokens \X PriceTokens, MaxRows)}

\* A file without the QUANTITY column.
NoQuantityTable ==
    [cols |-> <<"ID_MATERIAL", "AMOUNT_NET", "LINE">>,
     rows |-> <<[ID_MATERIAL |-> Str(<<"7">>), AMOUNT_NET |-> Str(<<"1", "0">>),
                 LINE |-> Str(<<"1">>)]>>]

GoodTable == [cols |-> RawCols, rows |-> <<RawRow(<<"5">>, <<"1", "0">>, 1)>>]

\* What pd.read_csv does with a file: utf8 is the outcome of the read with
\* encoding='utf-8' ("ok", "UnicodeDecodeError", or "error" for any other
\* exception), latin1 the outcome of the read with encoding='latin1', df the
\* table that a successful read returns.  One file already has the internal
\* column names numero_article, quantite, prix.
Files ==
    {[utf8 |-> u, latin1 |-> "ok", df |-> GoodTable] : u \in {"ok", "error"}}
    \cup {[utf8 |-> "UnicodeDecodeError", latin1 |-> "error", df |-> GoodTable]}
    \cup {[utf8 |-> "UnicodeDecodeError", latin1 |-> "ok", df |-> t] :
             t \in RawTables \cup {NoQuantityTable, Rename(GoodTable, column_mapping)}}

\* No call of load_billing_csv_files is under way.
LoaderIdle ==
    /\ file_paths = <<>>
    /\ pc = "idle"
    /\ i = 1
    /\ dataframes = <<>>
    /\ included_files = <<>>
    /\ excluded_files = <<>>
    /\ error = ""
    /\ df_all = EmptyTable
    /\ rapport = EmptyReport

\* No call of process_billing_with_co2 is under way.
ProcessorIdle ==
    /\ df_billing = EmptyTable
    /\ df_co2 = EmptyTable
    /\ filter_missing_articles = TRUE
    /\ proc_pc = "idle"
    /\ df_result = EmptyTable
    /\ df_result2 = EmptyTable

\* No call of filter_data_by_date_range is under way.
DateIdle ==
    /\ date_df = EmptyTable
    /\ start_date = None
    /\ end_date = None
    /\ date_pc = "idle"
    /\ date_error = ""
    /\ in_period = EmptyTable
    /\ out_period = EmptyTable

\* No parser has been called.
ParseIdle ==
    /\ token = None
    /\ parse_pc = "idle"
    /\ by_cleaner = None
    /\ by_utils = None
    /\ by_config = None

\* No call of clean_numero_article_column is under way.
KeyIdle ==
    /\ key_df = EmptyTable
    /\ key_pc = "idle"
    /\ key_once = EmptyTable
    /\ key_twice = EmptyTable

NoError == [exc |-> "", msg |-> "", expected |-> <<>>, found |-> <<>>]

NoFile == [read |-> "ok", df |-> EmptyTable]

\* No call of load_co2_config_csv is under way.
ConfigIdle ==
    /\ config_path = NoFile
    /\ cfg_pc = "idle"
    /\ cfg_mapping = 0
    /\ co2_config = EmptyTable
    /\ cfg_error = NoError

NoDecode == [encoding |-> "", df |-> EmptyTable]

\* No call of load_csv_with_encoding is under way.
EncodingIdle ==
    /\ enc_file = [utf8 |-> "ok", latin1 |-> "ok", df |-> EmptyTable]
    /\ enc_pc = "idle"
    /\ enc_i = 1
    /\ enc_result = NoDecode
    /\ enc_error = NoError

\* No window is shown.
WindowIdle ==
    /\ self_df_billing_raw = None
    /\ self_df_billing = None
    /\ self_df_non_period = None
    /\ self_co2_config = None
    /\ self_df_result = None
    /\ process_buttons_enabled = FALSE
    /\ export_button_enabled = FALSE
    /\ filter_enabled = FALSE
    /\ filter_window = 1
    /\ win_pc = "idle"

AppIdle == ConfigIdle /\ EncodingIdle /\ WindowIdle

UtilIdle == DateIdle /\ ParseIdle /\ KeyIdle /\ AppIdle

InitLoader ==
    /\ file_paths \in SeqsUpTo(Files, MaxFiles)
    /\ pc = "loop"
    /\ i = 1
    /\ dataframes = <<>>
    /\ included_files = <<>>
    /\ excluded_files = <<>>
    /\ error = ""
    /\ df_all = EmptyTable
    /\ rapport = EmptyReport
    /\ ProcessorIdle
    /\ UtilIdle

\* Line 21 succeeds: the try statement has no else clause and the code that
\* maps and appends the table is in the UnicodeDecodeError handler, so the
\* loop goes on to the next file.
ReadUtf8Ok ==
    /\ pc = "loop" /\ i <= Len(file_paths)
    /\ file_paths[i].utf8 = "ok"
    /\ i' = i + 1
    /\ UNCHANGED <<file_paths, pc, dataframes, included_files, excluded_files,
                   error, df_all, rapport>>
    /\ UNCHANGED <<procVars, utilVars>>

\* Line 21 raises an exception that is no UnicodeDecodeError: lines 77-79.
ReadFailed ==
    /\ pc = "loop" /\ i <= Len(file_paths)
    /\ file_paths[i].utf8 = "error"
    /\ excluded_files' = Append(excluded_files, [file |-> i, reason |-> "read error"])
    /\ i' = i + 1
    /\ UNCHANGED <<file_paths, pc, dataframes, included_files, error, df_all, rapport>>
    /\ UNCHANGED <<procVars, utilVars>>

\* Line 21 raises UnicodeDecodeError: lines 22-76 run as the handler.  An
\* exception raised in a handler is not caught by the except clauses that
\* follow it: it leaves load_billing_csv_files.
ReadLatin1Fallback ==
    /\ pc = "loop" /\ i <= Len(file_paths)
    /\ file_paths[i].utf8 = "UnicodeDecodeError"
    /\ \E r \in {IF file_paths[i].latin1 = "ok"
                 THEN MapAndValidate(file_paths[i].df)
                 ELSE Frame(EmptyTable, "read error")} :
           IF r.exc # ""
           THEN /\ pc' = "raised"
                /\ error' = r.exc
                /\ UNCHANGED <<i, dataframes, included_files>>
           ELSE /\ dataframes' = Append(dataframes, [cols |-> r.cols, rows |-> r.rows])
                /\ included_files' = Append(included_files, i)
                /\ i' = i + 1
                /\ UNCHANGED <<pc, error>>
    /\ UNCHANGED <<file_paths, excluded_files, df_all, rapport>>
    /\ UNCHANGED <<procVars, utilVars>>

\* Lines 80-81.
RaiseNoValidFile ==
    /\ pc = "loop" /\ i > Len(file_paths)
    /\ dataframes = <<>>
    /\ pc' = "raised"
    /\ error' = "Aucun fichier CSV valide"
    /\ UNCHANGED <<file_paths, i, dataframes, included_files, excluded_files,
                   df_all, rapport>>
    /\ UNCHANGED <<procVars, utilVars>>

\* Lines 82-89.
ReturnReport ==
    /\ pc = "loop" /\ i > Len(file_paths)
    /\ dataframes # <<>>
    /\ pc' = "returned"
    /\ df_all' = Concat(dataframes)
    /\ rapport' = [fichiers_inclus |-> included_files,
                   fichiers_exclus |-> excluded_files,
                   nb_fichiers_inclus |-> Len(included_files),
                   nb_fichiers_exclus |-> Len(excluded_files)]
    /\ UNCHANGED <<file_paths, i, dataframes, included_files, excluded_files, error>>
    /\ UNCHANGED <<procVars, utilVars>>

NextLoader ==
    \/ ReadUtf8Ok
    \/ ReadFailed
    \/ ReadLatin1Fallback
    \/ RaiseNoValidFile
    \/ ReturnReport

SpecLoader == InitLoader /\ [][NextLoader]_vars

---------------------------------------------------------------------------
\* Properties of load_billing_csv_files.

Finished == pc # "loop"

NoValidData == pc = "raised" /\ error = "Aucun fichier CSV valide"

ExcludedPaths == {x.file : x \in Range(excluded_files)}

\* The file decodes, with utf-8 or with the latin1 fallback.
Decodes(f) == f.utf8 = "ok" \/ (f.utf8 = "UnicodeDecodeError" /\ f.latin1 = "ok")

\* The numeric parser converts the cell to a number.
Convertible(val) == try_parse_float(val).t = "float"

\* The LINE values of the rows of a raw table whose quantity and price are
\* both convertible.
ConvertibleLines(df) ==
    {df.rows[k]["LINE"] : k \in {j \in DOMAIN df.rows :
        Convertible(df.rows[j]["QUANTITY"]) /\ Convertible(df.rows[j]["AMOUNT_NET"])}}

Lines(df) == {df.rows[k]["LINE"] : k \in DOMAIN df.rows}

\* The file decodes, has the required columns and at least one usable row.
Usable(f) ==
    Decodes(f) /\ MissingColumns(f.df) = <<>> /\ ConvertibleLines(f.df) # {}

\* C1: when the call returns, every input path is in exactly one of the
\* report's included and excluded lists, and the two counts add up to the
\* number of input paths, whichever encoding decoded each file.
C1_EveryFileReported ==
    pc = "returned" =>
        /\ rapport.nb_fichiers_inclus + rapport.nb_fichiers_exclus = Len(file_paths)
        /\ \A k \in DOMAIN file_paths :
               (k \in Range(rapport.fichiers_inclus))
                   # (k \in {x.file : x \in Range(rapport.fichiers_exclus)})

\* C2: a file that fails to decode or lacks a required column is excluded with
\* its path and reason, the files after it are still processed, and the call
\* does not raise when another file decodes and has the required columns.
C2_FileFailureAbsorbed ==
    Finished =>
        /\ i > Len(file_paths)
        /\ \A k \in DOMAIN file_paths :
               (~Decodes(file_paths[k]) \/ MissingColumns(file_paths[k].df) # <<>>)
                   => k \in ExcludedPaths
        /\ (\E k \in DOMAIN file_paths :
               Decodes(file_paths[k]) /\ MissingColumns(file_paths[k].df) = <<>>)
                   => pc = "returned"

\* C3: the call fails with the no-valid-data error exactly when no input file
\* yields a usable row; a file whose rows are all rejected is excluded, not
\* included; the returned combined table is never empty.
C3_FatalOnlyWithoutUsableRow ==
    Finished =>
        /\ NoValidData <=> ~\E k \in DOMAIN file_paths : Usable(file_paths[k])
        /\ \A j \in DOMAIN included_files : dataframes[j].rows # <<>>
        /\ pc = "returned" => df_all.rows # <<>>

\* The LINE values of the rows of a raw table whose quantity and price are
\* both plain numerals, which float() converts.
PlainLines(df) ==
    {df.rows[k]["LINE"] : k \in {j \in DOMAIN df.rows :
        /\ FloatOfStr(df.rows[j]["QUANTITY"]).t = "float"
        /\ FloatOfStr(df.rows[j]["AMOUNT_NET"]).t = "float"}}

\* C4: the rows a loaded file contributes are exactly its rows whose quantity
\* and price are both convertible to a number, and no file is aborted because
\* of a row rejected earlier in the same file.  Stated for both readings of
\* "convertible": every row of plain numerals is contributed, and every
\* contributed row has a quantity and a price that the numeric parser converts.
C4_RowRejectionKeepsValidRows ==
    /\ error \notin {"IndexError", "IndexingError"}
    /\ \A j \in DOMAIN included_files :
           /\ PlainLines(file_paths[included_files[j]].df) \subseteq Lines(dataframes[j])
           /\ Lines(dataframes[j])
                  \subseteq ConvertibleLines(file_paths[included_files[j]].df)

---------------------------------------------------------------------------
\* co2tool/core/processor.py: process_billing_with_co2

KeyCol == "numero_article"
FactorCol == "facteur_emission_co2"
EmissionCol == "emission_co2"

Zero == Flt(0, 0)

\* df.drop(columns=[col for col in drop if col in df.columns])
DropColumns(df, drop) ==
    [cols |-> SelectSeq(df.cols, LAMBDA c : c \notin drop),
     rows |-> [k \in DOMAIN df.rows |->
                  [c \in Range(df.cols) \ drop |-> df.rows[k][c]]]]

\* df[col] = df[col].astype(str)
CastToStr(df, col) ==
    SetColumn(df, col, [k \in DOMAIN df.rows |-> Str(py_str(df.rows[k][col]))])

\* The name of column c with the suffix that the merge gives to the columns
\* of overlap.
Suffix(c, overlap, suffix) == IF c \in overlap THEN c \o suffix ELSE c

\* The row with its columns renamed by Suffix.
RenamedRow(row, cols, overlap, suffix) ==
    [c2 \in {Suffix(c, overlap, suffix) : c \in cols} |->
        row[CHOOSE c \in cols : Suffix(c, overlap, suffix) = c2]]

\* The rows of the left join for one left row l: one per right row with the
\* same key, in the right table's order, or one with NaN in the right
\* columns when no right row has the key.
JoinedRows(l, right, rcols) ==
    LET Joined(matches) ==
            IF matches = <<>> THEN <<l @@ [c \in rcols |-> NaN]>>
            ELSE [j \in DOMAIN matches |-> l @@ matches[j]]
    IN  Joined(SelectSeq(right, LAMBDA r : r[KeyCol] = l[KeyCol]))

RECURSIVE LeftJoin(_, _, _)
LeftJoin(left, right, rcols) ==
    IF left = <<>> THEN <<>>
    ELSE JoinedRows(Head(left), right, rcols) \o LeftJoin(Tail(left), right, rcols)

\* pd.merge(left, right, on="numero_article", how="left"): a column other
\* than the key that both tables have gets the suffix _x on the left and _y
\* on the right.
Merge(left, right) ==
    LET Suffixed(overlap) ==
            LET join == SelectSeq(right.cols, LAMBDA c : c # KeyCol)
            IN  [cols |-> [k \in DOMAIN left.cols |-> Suffix(left.cols[k], overlap, "_x")]
                          \o [k \in DOMAIN join |-> Suffix(join[k], overlap, "_y")],
                 rows |-> LeftJoin(
                     [k \in DOMAIN left.rows |->
                         RenamedRow(left.rows[k], Range(left.cols), overlap, "_x")],
                     [k \in DOMAIN right.rows |->
                         RenamedRow(right.rows[k], Range(right.cols), overlap, "_y")],
                     {Suffix(c, overlap, "_y") : c \in Range(join)})]
    IN  Suffixed((Range(left.cols) \cap Range(right.cols)) \ {KeyCol})

\* df[col] = vals: the column is replaced in place, or added as the last one.
Assign(df, col, vals) ==
    [cols |-> IF col \in Range(df.cols) THEN df.cols ELSE Append(df.cols, col),
     rows |-> [k \in DOMAIN df.rows |->
                  [c \in Range(df.cols) \cup {col} |->
                      IF c = col THEN vals[k] ELSE df.rows[k][c]]]]

\* df[keep], keep a set of positions
SelectRows(df, keep) ==
    LET Take(pos) == [df EXCEPT !.rows = [k \in DOMAIN pos |-> df.rows[pos[k]]]]
    IN  Take(Positions(Len(df.rows), keep))

\* Lines 39-56: the rows kept after the join.
FilterMerged(merged, filter) ==
    IF FactorCol \notin Range(merged.cols)
    THEN Assign(merged, FactorCol, [k \in DOMAIN merged.rows |-> Zero])
    ELSE IF filter
    THEN SelectRows(merged, {k \in DOMAIN merged.rows : ~isnull(merged.rows[k][FactorCol])})
    ELSE merged

\* The table df with the exception exc.
Outcome(df, exc) == [cols |-> df.cols, rows |-> df.rows, exc |-> exc]

\* val of a column converted by astype(float)
AsTypeFloat(val) ==
    CASE val.t = "str" -> PyFloat(val.s)
      [] val.t = "none" -> NaN
      [] OTHER -> val

\* df[col] = df[col].astype(float); d is the table with the exception raised
\* so far ("" when none).
ColumnToFloat(d, col) ==
    LET Converted(vals) ==
            IF \E k \in DOMAIN vals : vals[k] = ValueError THEN Raise(d, "ValueError")
            ELSE Outcome(SetColumn(d, col, vals), "")
    IN  IF d.exc # "" THEN d
        ELSE IF col \notin Range(d.cols) THEN Raise(d, "KeyError")
        ELSE Converted([k \in DOMAIN d.rows |-> AsTypeFloat(d.rows[k][col])])

\* Line 59: fillna(0)
FillFactor(df) ==
    SetColumn(df, FactorCol,
              [k \in DOMAIN df.rows |->
                  IF isnull(df.rows[k][FactorCol]) THEN Zero ELSE df.rows[k][FactorCol]])

\* signe_prix with a price of zero counted as a return.
signe_prix_zero_is_return(x) == IF x.t = "float" /\ x.m <= 0 THEN 0 - 1 ELSE 1

\* lambda x: -1 if x < 0 else 1
signe_prix(x) == IF x.t = "float" /\ x.m < 0 THEN 0 - 1 ELSE 1

\* The product of two floats.
Mul(a, b) ==
    IF a.t = "nan" \/ b.t = "nan" THEN NaN ELSE Flt(a.m * b.m, a.e + b.e)

\* RowEmission without the sign of the price.
RowEmission_unsigned(row) == Mul(row["quantite"], row[FactorCol])

\* Lines 83-89 for one row.
RowEmission(row) ==
    LET Adjusted(facteur_ajuste) == Mul(row["quantite"], facteur_ajuste)
    IN  Adjusted(Mul(row[FactorCol], Flt(signe_prix(row["prix"]), 0)))

\* Lines 78-101.  The columns signe_prix and facteur_emission_co2_ajuste
\* that lines 83-86 add are dropped at line 92: they are the local
\* facteur_ajuste of RowEmission.
Emissions(d) ==
    LET WithPrice(dp) ==
            IF dp.exc # "" THEN dp
            ELSE Outcome(Assign(dp, EmissionCol,
                             [k \in DOMAIN dp.rows |-> RowEmission(dp.rows[k])]), "")
    IN  IF d.exc # "" THEN d
        ELSE IF "prix" \in Range(d.cols) THEN WithPrice(ColumnToFloat(d, "prix"))
        ELSE Outcome(Assign(d, EmissionCol,
                         [k \in DOMAIN d.rows |->
                             Mul(d.rows[k]["quantite"], d.rows[k][FactorCol])]), "")

\* Lines 58-108 on the rows kept after the join.
Compute(kept) ==
    Emissions(ColumnToFloat(ColumnToFloat(Outcome(FillFactor(kept), ""), FactorCol),
                            "quantite"))

\* Lines 22-28: the table the name df_billing is bound to at line 31.
WithoutProcessed(billing) ==
    IF FactorCol \in Range(billing.cols)
    THEN DropColumns(billing, {FactorCol, EmissionCol})
    ELSE billing

\* process_billing_with_co2(billing, co2, filter): the table returned (out,
\* with out.exc the exception raised, "" when none) and the tables that the
\* caller's billing and co2 hold after the call.  Line 31 assigns the column
\* in the caller's table unless line 28 has bound df_billing to a new table;
\* line 32 assigns the column in the caller's reference table.
process_billing_with_co2(billing, co2, filter) ==
    [out |-> Compute(FilterMerged(Merge(CastToStr(WithoutProcessed(billing), KeyCol),
                                        CastToStr(co2, KeyCol)), filter)),
     billing |-> IF FactorCol \in Range(billing.cols) THEN billing
                 ELSE CastToStr(billing, KeyCol),
     co2 |-> CastToStr(co2, KeyCol)]

\* The billing tables of the model are tables that load_billing_csv_files
\* returns: the article key is a text or missing, the quantity a float or NaN
\* (a quantity the parser rejected, in a file where it accepted another one),
\* the price a text that float() converts or missing.  LINE is the position of
\* the row.
BillingValues ==
    {<<Str(<<"7">>), Flt(10, 0), Str(<<"5", "0">>)>>,
     <<Str(<<"7">>), Flt(10, 0), Str(<<"-", "5", "0">>)>>,
     <<Str(<<"7">>), Flt(0 - 10, 0), Str(<<"-", "5", "0">>)>>,
     <<Str(<<"8">>), Flt(4, 0), Str(<<"0">>)>>,
     <<NaN, Flt(4, 0), Str(<<"5", "0">>)>>,
     <<Str(<<"7">>), NaN, Str(<<"5", "0">>)>>,
     <<Str(<<"8">>), Flt(15, 1), NaN>>}

BillingCols == <<"numero_article", "quantite", "prix", "LINE">>

BillingTables ==
    {[cols |-> BillingCols,
      rows |-> [k \in DOMAIN v |->
                   [numero_article |-> v[k][1], quantite |-> v[k][2], prix |-> v[k][3],
                    LINE |-> Str(NatStr(k))]]] :
        v \in SeqsUpTo(BillingValues, MaxBillingRows)}

\* The reference tables of the model are tables that load_co2_config_csv
\* returns (a text key and a float factor in every row, at least one row,
\* with or without the passthrough column categorie), and tables without
\* the factor column.
RefValues ==
    {<<Str(<<"7">>), Flt(2, 0)>>, <<Str(<<"7">>), Flt(15, 1)>>, <<Str(<<"8">>), Flt(3, 0)>>}

RefColumns ==
    {<<"numero_article", "facteur_emission_co2">>,
     <<"numero_article", "facteur_emission_co2", "categorie">>,
     <<"numero_article", "categorie">>}

RefTables ==
    {[cols |-> cols,
      rows |-> [k \in DOMAIN v |->
                   [c \in Range(cols) |->
                       CASE c = "numero_article" -> v[k][1]
                         [] c = "facteur_emission_co2" -> v[k][2]
                         [] c = "categorie" -> Str(<<"A">>)]]] :
        cols \in RefColumns, v \in SeqsUpTo(RefValues, MaxRefRows) \ {<<>>}}

InitProcessor ==
    /\ df_billing \in BillingTables
    /\ df_co2 \in RefTables
    /\ filter_missing_articles = TRUE
    /\ proc_pc = "ready"
    /\ df_result = EmptyTable
    /\ df_result2 = EmptyTable
    /\ LoaderIdle
    /\ UtilIdle

\* df_result = process_billing_with_co2(df_billing, df_co2, filter)
Process ==
    /\ proc_pc = "ready"
    /\ \E filter \in BOOLEAN :
       \E r \in {process_billing_with_co2(df_billing, df_co2, filter)} :
           /\ filter_missing_articles' = filter
           /\ df_billing' = r.billing
           /\ df_co2' = r.co2
           /\ IF r.out.exc # ""
              THEN proc_pc' = "raised" /\ UNCHANGED df_result
              ELSE /\ proc_pc' = "processed"
                   /\ df_result' = [cols |-> r.out.cols, rows |-> r.out.rows]
    /\ UNCHANGED <<df_result2, loaderVars, utilVars>>

\* df_result2 = process_billing_with_co2(df_result, df_co2, filter), the call
\* on the table that the first call returned.
Reprocess ==
    /\ proc_pc = "processed"
    /\ \E r \in {process_billing_with_co2(df_result, df_co2, filter_missing_articles)} :
           /\ df_result' = r.billing
           /\ df_co2' = r.co2
           /\ IF r.out.exc # ""
              THEN proc_pc' = "raised" /\ UNCHANGED df_result2
              ELSE /\ proc_pc' = "reprocessed"
                   /\ df_result2' = [cols |-> r.out.cols, rows |-> r.out.rows]
    /\ UNCHANGED <<df_billing, filter_missing_articles, loaderVars, utilVars>>

NextProcessor ==
    \/ Process
    \/ Reprocess

SpecProcessor == InitProcessor /\ [][NextProcessor]_vars

---------------------------------------------------------------------------
\* Properties of process_billing_with_co2.

\* The step is a first call of process_billing_with_co2 that returns.
ProcessReturns == proc_pc = "ready" /\ proc_pc' = "processed"

\* The article keys of the reference table, as the join compares them.
RefKeys(co2) == {py_str(co2.rows[k][KeyCol]) : k \in DOMAIN co2.rows}

HasEntry(row, co2) == py_str(row[KeyCol]) \in RefKeys(co2)

MatchedLines(billing, co2) ==
    {billing.rows[k]["LINE"] : k \in {j \in DOMAIN billing.rows :
        HasEntry(billing.rows[j], co2)}}

\* The tables that process_billing_with_co2 has returned so far.
Returned ==
    CASE proc_pc = "processed" -> {df_result}
      [] proc_pc = "reprocessed" -> {df_result, df_result2}
      [] OTHER -> {}

\* C5: with a reference table that has the emission-factor column, the call
\* with filter_missing_articles = True returns exactly the billing rows whose
\* article key has a reference entry; with filter_missing_articles = False it
\* retains every billing row, each unmatched row with factor 0 and emission 0.
\* Rows are identified by their LINE value, so a row that the join repeats
\* counts once.
C5_FilterKeepsMatchedRows ==
    [][(ProcessReturns /\ FactorCol \in Range(df_co2.cols)) =>
         IF filter_missing_articles'
         THEN Lines(df_result') = MatchedLines(df_billing, df_co2)
         ELSE /\ Lines(df_result') = Lines(df_billing)
              /\ \A k \in DOMAIN df_result'.rows :
                     ~HasEntry(df_result'.rows[k], df_co2) =>
                         /\ df_result'.rows[k][FactorCol] = Zero
                         /\ df_result'.rows[k][EmissionCol] = Zero]_vars

\* s of the emission formula: -1 when the unit price is below zero, else +1.
Sign(price) == IF price.t = "float" /\ price.m < 0 THEN Flt(0 - 1, 0) ELSE Flt(1, 0)

\* C6: in every returned row emission_co2 = quantity * emission factor * s,
\* with s = -1 when the unit price is below zero and +1 otherwise (price 0
\* included); quantity 10, unit price -50 and factor 2 give -20.
C6_EmissionFormula ==
    \A t \in Returned : \A k \in DOMAIN t.rows :
        /\ t.rows[k][EmissionCol]
               = Mul(Mul(t.rows[k]["quantite"], t.rows[k][FactorCol]),
                     Sign(t.rows[k]["prix"]))
        /\ (/\ t.rows[k]["quantite"] = Flt(10, 0)
            /\ t.rows[k]["prix"] = Flt(0 - 50, 0)
            /\ t.rows[k][FactorCol] = Flt(2, 0))
               => t.rows[k][EmissionCol] = Flt(0 - 20, 0)

\* A returned row with quantity 10, unit price -50, factor 2 and emission -20,
\* next to a returned row whose unit price is 0.
C6_Witness ==
    /\ proc_pc = "processed"
    /\ \E k \in DOMAIN df_result.rows :
           /\ df_result.rows[k]["quantite"] = Flt(10, 0)
           /\ df_result.rows[k]["prix"] = Flt(0 - 50, 0)
           /\ df_result.rows[k][FactorCol] = Flt(2, 0)
           /\ df_result.rows[k][EmissionCol] = Flt(0 - 20, 0)
    /\ \E k \in DOMAIN df_result.rows :
           /\ df_result.rows[k]["prix"] = Zero
           /\ df_result.rows[k][FactorCol] = Flt(3, 0)
           /\ df_result.rows[k][EmissionCol] = Flt(12, 0)

\* The sum of two floats.
Add(a, b) ==
    IF a.t = "nan" \/ b.t = "nan" THEN NaN
    ELSE IF a.e >= b.e THEN Flt(a.m + b.m * Pow10(a.e - b.e), a.e)
    ELSE Flt(a.m * Pow10(b.e - a.e) + b.m, b.e)

Neg(a) == Mul(a, Flt(0 - 1, 0))

Positive(a) == a.t = "float" /\ a.m > 0

\* Rows o and r of a returned table are an order line (quantity and unit
\* price above zero) and a return line of the same article, with the same
\* factor and the opposite unit price.
OrderAndReturn(o, r) ==
    /\ Positive(o["quantite"])
    /\ Positive(o["prix"])
    /\ r[KeyCol] = o[KeyCol]
    /\ r[FactorCol] = o[FactorCol]
    /\ r["prix"] = Neg(o["prix"])

\* C7 as stated: the emissions of an order line and of its return line sum to
\* zero, both when the return line repeats the quantity q and when it
\* records -q.
C7_PairCancels ==
    \A t \in Returned : \A a, b \in DOMAIN t.rows :
        (/\ OrderAndReturn(t.rows[a], t.rows[b])
         /\ t.rows[b]["quantite"] \in {t.rows[a]["quantite"], Neg(t.rows[a]["quantite"])})
            => Add(t.rows[a][EmissionCol], t.rows[b][EmissionCol]) = Zero

\* C7: the emissions of an order line and of its return line sum to zero when
\* the return line repeats the quantity q; when the return line records -q,
\* the two emissions are equal and sum to 2 * q * factor.
C7_PairCancelsForRepeatedQuantity ==
    \A t \in Returned : \A a, b \in DOMAIN t.rows :
        OrderAndReturn(t.rows[a], t.rows[b]) =>
            /\ t.rows[b]["quantite"] = t.rows[a]["quantite"]
                   => Add(t.rows[a][EmissionCol], t.rows[b][EmissionCol]) = Zero
            /\ t.rows[b]["quantite"] = Neg(t.rows[a]["quantite"])
                   => /\ t.rows[b][EmissionCol] = t.rows[a][EmissionCol]
                      /\ Add(t.rows[a][EmissionCol], t.rows[b][EmissionCol])
                             = Mul(Flt(2, 0),
                                   Mul(t.rows[a]["quantite"], t.rows[a][FactorCol]))

\* An order line and its return line with the same quantity and emissions
\* other than zero have been returned.
C7_Witness ==
    /\ proc_pc = "processed"
    /\ \E a, b \in DOMAIN df_result.rows :
           /\ OrderAndReturn(df_result.rows[a], df_result.rows[b])
           /\ df_result.rows[b]["quantite"] = df_result.rows[a]["quantite"]
           /\ Positive(df_result.rows[a][EmissionCol])
           /\ df_result.rows[b][EmissionCol] = Neg(df_result.rows[a][EmissionCol])

\* C8: the call on its own prior output, with the same reference table and
\* filter, returns the same rows, the same emission_co2 values and the same
\* set of columns as the first call.
C8_Idempotent ==
    proc_pc = "reprocessed" =>
        /\ Range(df_result2.cols) = Range(df_result.cols)
        /\ Len(df_result2.rows) = Len(df_result.rows)
        /\ \A k \in DOMAIN df_result2.rows \cap DOMAIN df_result.rows :
               /\ df_result2.rows[k]["LINE"] = df_result.rows[k]["LINE"]
               /\ df_result2.rows[k][EmissionCol] = df_result.rows[k][EmissionCol]

\* C9: a call leaves the billing table and the reference table it is given
\* with the same columns, values and value types.
C9_InputsNotMutated ==
    [][/\ df_billing' = df_billing
       /\ df_co2' = df_co2
       /\ proc_pc = "processed" => df_result' = df_result]_vars

\* C10: every returned row has a numeric, non-null emission factor and a
\* numeric, non-null emission_co2, for the billing tables that
\* load_billing_csv_files returns and the reference tables that
\* load_co2_config_csv returns.
C10_NumericEmission ==
    FactorCol \in Range(df_co2.cols) =>
        \A t \in Returned : \A k \in DOMAIN t.rows :
            /\ t.rows[k][FactorCol].t = "float"
            /\ t.rows[k][EmissionCol].t = "float"

---------------------------------------------------------------------------
\* co2tool/utils/data_utils.py: filter_data_by_date_range

MaxDateRows == 2

DateCol == "DATE_INVOICE"

\* A pandas Timestamp at midnight of the day n = year * 10000 + month * 100 + day.
Timestamp(n) == [t |-> "Timestamp", s |-> <<>>, m |-> n, e |-> 0]

NaT == [t |-> "NaT", s |-> <<>>, m |-> 0, e |-> 0]

\* A datetime.date object.
DateObject(n) == [t |-> "date", s |-> <<>>, m |-> n, e |-> 0]

IsLeap(y) == (y % 4 = 0 /\ y % 100 # 0) \/ y % 400 = 0

DaysInMonth(y, m) ==
    IF m = 2 THEN (IF IsLeap(y) THEN 29 ELSE 28)
    ELSE IF m \in {4, 6, 9, 11} THEN 30 ELSE 31

\* The Timestamp of the calendar day, NaT when there is no such day.
ValidDay(y, m, d) ==
    IF m \in 1..12 /\ d \in 1..DaysInMonth(y, m)
    THEN Timestamp(y * 10000 + m * 100 + d)
    ELSE NaT

\* The text s read as YYYY-MM-DD.
IsoDay(s) ==
    IF /\ Len(s) = 10 /\ s[5] = "-" /\ s[8] = "-"
       /\ AllDigits(SubSeq(s, 1, 4)) /\ AllDigits(SubSeq(s, 6, 7))
       /\ AllDigits(SubSeq(s, 9, 10))
    THEN ValidDay(DigitsVal(SubSeq(s, 1, 4)), DigitsVal(SubSeq(s, 6, 7)),
                  DigitsVal(SubSeq(s, 9, 10)))
    ELSE NaT

\* The text s read as DD/MM/YYYY or DD-MM-YYYY (dayfirst=True).
DayFirstDay(s) ==
    IF /\ Len(s) = 10 /\ s[3] \in {"/", "-"} /\ s[6] = s[3]
       /\ AllDigits(SubSeq(s, 1, 2)) /\ AllDigits(SubSeq(s, 4, 5))
       /\ AllDigits(SubSeq(s, 7, 10))
    THEN ValidDay(DigitsVal(SubSeq(s, 7, 10)), DigitsVal(SubSeq(s, 4, 5)),
                  DigitsVal(SubSeq(s, 1, 2)))
    ELSE NaT

\* pd.to_datetime(val, errors="coerce", dayfirst=True) for one cell: a
\* missing value and a text that is no date give NaT.
to_datetime(val) ==
    LET Parsed(iso, s) == IF iso.t = "Timestamp" THEN iso ELSE DayFirstDay(s)
    IN  IF val.t # "str" THEN NaT ELSE Parsed(IsoDay(Strip(val.s)), Strip(val.s))

\* pd.Timestamp(s) for a text s: NaT for the empty text, ValueError for a
\* text that is no date.
TimestampOfStr(s) ==
    LET Parsed(iso) == IF iso.t = "Timestamp" THEN iso ELSE ValueError
    IN  IF s = <<>> THEN NaT ELSE Parsed(IsoDay(s))

\* Lines 141-155: the bound that the comparison of line 162 uses.  An unset
\* bound becomes the datetime.date object default, which is not converted
\* to a Timestamp.
Bound(arg, default) ==
    CASE arg.t = "none" -> default
      [] arg.t = "str" -> TimestampOfStr(arg.s)
      [] arg.t = "date" -> Timestamp(arg.m)

\* InWindow with a date that did not parse counted as inside the window.
InWindow_unparsed_inside(ts, lo, hi) ==
    \/ ts.t = "NaT"
    \/ /\ lo.t # "NaT" /\ hi.t # "NaT"
       /\ ts.m >= lo.m
       /\ ts.m <= hi.m

\* InWindow with the end of the window excluded.
InWindow_end_excluded(ts, lo, hi) ==
    /\ ts.t # "NaT" /\ lo.t # "NaT" /\ hi.t # "NaT"
    /\ ts.m >= lo.m
    /\ ts.m < hi.m

\* Line 162 for one row: (ts >= lo) & (ts <= hi).  A comparison with NaT is
\* False.
InWindow(ts, lo, hi) ==
    /\ ts.t # "NaT" /\ lo.t # "NaT" /\ hi.t # "NaT"
    /\ ts.m >= lo.m
    /\ ts.m <= hi.m

\* Unfiltered raising KeyError for the missing column.
Unfiltered_raises(df) == [in_period |-> EmptyTable, out_period |-> EmptyTable, exc |-> "KeyError"]

\* Line 138: the result for a table without the date column.
Unfiltered(df) == [in_period |-> df, out_period |-> EmptyTable, exc |-> ""]

\* The call raises exc.
DateRaise(exc) == [in_period |-> EmptyTable, out_period |-> EmptyTable, exc |-> exc]

\* The comparison of a datetime64 column with a datetime.date object depends
\* on the pandas build: it raises TypeError, or it compares with midnight of
\* that day.
DateComparisons == {"TypeError", "midnight"}

\* The years that datetime.datetime.now().year gives.
Years == {2024, 2025}

\* filter_data_by_date_range(df, start_date, end_date, date_col), with the
\* current year and the behaviour of the pandas build.
filter_data_by_date_range(df, start, end, date_col, year, date_cmp) ==
    LET Split(mask) ==
            [in_period |-> SelectRows(df, mask),
             out_period |-> SelectRows(df, DOMAIN df.rows \ mask),
             exc |-> ""]
        Compare(lo, hi) ==
            IF lo = ValueError \/ hi = ValueError THEN DateRaise("ValueError")
            ELSE IF date_cmp = "TypeError" /\ "date" \in {lo.t, hi.t}
            THEN DateRaise("TypeError")
            ELSE Split({k \in DOMAIN df.rows :
                           InWindow(to_datetime(df.rows[k][date_col]), lo, hi)})
    IN  IF date_col \notin Range(df.cols) THEN Unfiltered(df)
        ELSE Compare(Bound(start, DateObject(year * 10000 + 101)),
                     Bound(end, DateObject(year * 10000 + 1231)))

\* The date cells of the model: the first of February 2024 written as ISO
\* and day-first, the last day of 2024, the days before and after that
\* window, a text that is no date and a missing value.
DateTokens ==
    {Str(<<"2", "0", "2", "4", "-", "0", "2", "-", "0", "1">>),
     Str(<<"0", "1", "/", "0", "2", "/", "2", "0", "2", "4">>),
     Str(<<"3", "1", "/", "1", "2", "/", "2", "0", "2", "4">>),
     Str(<<"3", "1", "/", "0", "1", "/", "2", "0", "2", "4">>),
     Str(<<"2", "0", "2", "5", "-", "0", "1", "-", "0", "1">>),
     Str(<<"a", "b", "c">>),
     NaN}

DateTables ==
    {[cols |-> <<DateCol, "LINE">>,
      rows |-> [k \in DOMAIN v |->
                   [DATE_INVOICE |-> v[k], LINE |-> Str(NatStr(k))]]] :
        v \in SeqsUpTo(DateTokens, MaxDateRows)}
    \cup {[cols |-> <<"LINE">>,
           rows |-> [k \in 1..n |-> [LINE |-> Str(NatStr(k))]]] :
             n \in 0..MaxDateRows}

\* The values of start_date and end_date: unset, the empty text, an ISO
\* text and a datetime.date object.
WindowValues ==
    {None, Str(<<>>),
     Str(<<"2", "0", "2", "4", "-", "0", "2", "-", "0", "1">>),
     Str(<<"2", "0", "2", "4", "-", "1", "2", "-", "3", "1">>),
     DateObject(20240201)}

InitDate ==
    /\ date_df \in DateTables
    /\ start_date \in WindowValues
    /\ end_date \in WindowValues
    /\ date_pc = "ready"
    /\ date_error = ""
    /\ in_period = EmptyTable
    /\ out_period = EmptyTable
    /\ LoaderIdle
    /\ ProcessorIdle
    /\ ParseIdle
    /\ KeyIdle
    /\ AppIdle

FilterByDateRange ==
    /\ date_pc = "ready"
    /\ \E year \in Years, date_cmp \in DateComparisons :
       \E r \in {filter_data_by_date_range(date_df, start_date, end_date, DateCol,
                                           year, date_cmp)} :
           /\ date_pc' = IF r.exc = "" THEN "returned" ELSE "raised"
           /\ date_error' = r.exc
           /\ in_period' = r.in_period
           /\ out_period' = r.out_period
    /\ UNCHANGED <<date_df, start_date, end_date, loaderVars, procVars, parseVars,
                   keyVars, appVars>>

NextDate == FilterByDateRange

SpecDate == InitDate /\ [][NextDate]_vars

---------------------------------------------------------------------------
\* Properties of filter_data_by_date_range.

\* The rows of table df as the sequence of their LINE values.
LineSeq(df) == [k \in DOMAIN df.rows |-> df.rows[k]["LINE"]]

\* The calendar day that a date cell of the model is written for, as
\* year * 10000 + month * 100 + day; 0 for a cell that holds no date.
DayOfCell(cell) ==
    CASE cell = Str(<<"2", "0", "2", "4", "-", "0", "2", "-", "0", "1">>) -> 20240201
      [] cell = Str(<<"0", "1", "/", "0", "2", "/", "2", "0", "2", "4">>) -> 20240201
      [] cell = Str(<<"3", "1", "/", "1", "2", "/", "2", "0", "2", "4">>) -> 20241231
      [] cell = Str(<<"3", "1", "/", "0", "1", "/", "2", "0", "2", "4">>) -> 20240131
      [] cell = Str(<<"2", "0", "2", "5", "-", "0", "1", "-", "0", "1">>) -> 20250101
      [] OTHER -> 0

\* The calendar day that a window bound of the model is given as; 0 for an
\* unset or empty bound.
DayOfBound(arg) ==
    CASE arg = Str(<<"2", "0", "2", "4", "-", "0", "2", "-", "0", "1">>) -> 20240201
      [] arg = Str(<<"2", "0", "2", "4", "-", "1", "2", "-", "3", "1">>) -> 20241231
      [] arg = DateObject(20240201) -> 20240201
      [] OTHER -> 0

HasDateColumn == DateCol \in Range(date_df.cols)

\* start_date and end_date are unset or empty.
Unset(arg) == arg = None \/ arg = Str(<<>>)

C12_DisabledFilterKeepsAll ==
    (Unset(start_date) /\ Unset(end_date) /\ date_pc # "ready") =>
        /\ date_pc = "returned"
        /\ LineSeq(in_period) = LineSeq(date_df)
        /\ out_period.rows = <<>>

---------------------------------------------------------------------------
\* The numeric parsers: cleaner.try_parse_float, data_utils.parse_float and
\* the parse_float nested in load_co2_config_csv.

MaxTokenLen == 5

\* Lines 25-30 of data_utils.py and 130-134 of loader.py: every comma becomes
\* a point, then every point but the last is removed.
PointSeparators(s) ==
    LET Pointed(d) == IF Count(d, ".") > 1 THEN KeepLastDot(d) ELSE d
    IN  Pointed(Replace(s, ",", "."))

\* Lines 23-24 of data_utils.py and 128-129 of loader.py.
Unspaced(val) == Remove(Remove(Remove(Strip(py_str(val)), "NNBSP"), "NBSP"), " ")

\* The except clause: None for a conversion that raised.
NoneIfRaised(f) == IF f.t = "ValueError" THEN None ELSE f

\* data_utils.parse_float
parse_float(val) ==
    IF isnull(val) THEN None
    ELSE NoneIfRaised(PyFloat(PointSeparators(Unspaced(val))))

\* The parse_float defined in load_co2_config_csv: no test for a missing value.
config_parse_float(val) == NoneIfRaised(PyFloat(PointSeparators(Unspaced(val))))

\* The characters of the generated tokens.
TokenChars == {"1", ",", ".", " ", "a"}

\* Tokens written out: the numeral conventions, currency symbols ("EUR"
\* stands for the euro sign), texts and mixed tokens.
NamedTokens ==
    {<<"1", ",", "2", "3">>,
     <<"1", ".", "2", "3">>,
     <<" ", "1", ".", "2", "3", " ">>,
     <<"1", " ", "2", "3", "4", ",", "5", "6">>,
     <<"1", "NBSP", "2", "3", "4", ",", "5", "6">>,
     <<"1", ",", "2", "3", "4", ".", "5", "6">>,
     <<"1", ".", "2", "3", "4", ",", "5", "6">>,
     <<"1", ",", "2", "3", "4", ".", "5", "6", " ", "EUR">>,
     <<"EUR", "1", ",", "2", "3", "4", ".", "5", "6">>,
     <<"1", ",", "2", "3", "4">>,
     <<"a", "b", "c">>,
     <<"n", "a", "n">>,
     <<"1", "2", "3", "a", "b", "c">>,
     <<"1", "2", "3", "-", "4", "5", "6">>,
     <<"-", "5">>}

\* The values handed to the parsers: texts, missing values and a float.
Tokens ==
    {Str(s) : s \in SeqsUpTo(TokenChars, MaxTokenLen) \cup NamedTokens}
    \cup {None, NaN, Flt(15, 1)}

InitParse ==
    /\ token \in Tokens
    /\ parse_pc = "cleaner"
    /\ by_cleaner = None
    /\ by_utils = None
    /\ by_config = None
    /\ LoaderIdle
    /\ ProcessorIdle
    /\ DateIdle
    /\ KeyIdle
    /\ AppIdle

ParseByCleaner ==
    /\ parse_pc = "cleaner"
    /\ by_cleaner' = try_parse_float(token)
    /\ parse_pc' = "utils"
    /\ UNCHANGED <<token, by_utils, by_config, loaderVars, procVars, dateVars, keyVars,
                   appVars>>

ParseByUtils ==
    /\ parse_pc = "utils"
    /\ by_utils' = parse_float(token)
    /\ parse_pc' = "config"
    /\ UNCHANGED <<token, by_cleaner, by_config, loaderVars, procVars, dateVars, keyVars,
                   appVars>>

ParseByConfig ==
    /\ parse_pc = "config"
    /\ by_config' = config_parse_float(token)
    /\ parse_pc' = "done"
    /\ UNCHANGED <<token, by_cleaner, by_utils, loaderVars, procVars, dateVars, keyVars,
                   appVars>>

NextParse ==
    \/ ParseByCleaner
    \/ ParseByUtils
    \/ ParseByConfig

SpecParse == InitParse /\ [][NextParse]_vars

---------------------------------------------------------------------------
\* Properties of the numeric parsers.

\* The numerals of the model, each with the number it is written for: comma
\* decimal, point decimal, point decimal between spaces, space-grouped and
\* NBSP-grouped with comma decimal, comma-grouped with point decimal,
\* point-grouped with comma decimal.
Conventions ==
    {<<<<"1", ",", "2", "3">>, Flt(123, 2)>>,
     <<<<"1", ".", "2", "3">>, Flt(123, 2)>>,
     <<<<" ", "1", ".", "2", "3", " ">>, Flt(123, 2)>>,
     <<<<"1", " ", "2", "3", "4", ",", "5", "6">>, Flt(123456, 2)>>,
     <<<<"1", "NBSP", "2", "3", "4", ",", "5", "6">>, Flt(123456, 2)>>,
     <<<<"1", ",", "2", "3", "4", ".", "5", "6">>, Flt(123456, 2)>>,
     <<<<"1", ".", "2", "3", "4", ",", "5", "6">>, Flt(123456, 2)>>}

\* C15: the numeric parser returns the number a numeral is written for,
\* whichever supported convention wrote it, also between spaces; stated for
\* data_utils.parse_float and for cleaner.try_parse_float.
C15_SameNumberForEveryConvention ==
    parse_pc = "done" =>
        \A c \in Conventions :
            token = Str(c[1]) => (by_utils = c[2] /\ by_cleaner = c[2])

\* C16: parse_float returns 1234.56 for '1,234.56 EUR' and for 'EUR1,234.56'.
C16_CurrencySymbolStripped ==
    (/\ parse_pc = "done"
     /\ token \in {Str(<<"1", ",", "2", "3", "4", ".", "5", "6", " ", "EUR">>),
                   Str(<<"EUR", "1", ",", "2", "3", "4", ".", "5", "6">>)})
        => by_utils = Flt(123456, 2)

\* The text holds letters only.
PureText(s) == s # <<>> /\ \A k \in DOMAIN s : s[k] \in {"a", "b", "c", "n"}

\* The text holds a digit.
HasDigit(s) == \E k \in DOMAIN s : s[k] \in Digits

\* C17: no parser raises; each returns None for a missing value, the empty
\* or whitespace-only text, a pure text and the mixed tokens '123abc' and
\* '123-456'; each returns a number only for a token with a digit.  Stated
\* for data_utils.parse_float and for cleaner.try_parse_float.
C17_ParserTotal ==
    parse_pc = "done" =>
        \A r \in {by_utils, by_cleaner} :
            /\ r.t \in {"float", "none", "nan"}
            /\ (\/ isnull(token)
                \/ token.t = "str" /\ Strip(token.s) = <<>>
                \/ token.t = "str" /\ PureText(token.s)
                \/ token \in {Str(<<"1", "2", "3", "a", "b", "c">>),
                              Str(<<"1", "2", "3", "-", "4", "5", "6">>)})
                   => r = None
            /\ r.t = "float" => (token.t = "float" \/ HasDigit(token.s))

\* C18: for every token the three parsers return the same result.
C18_ParsersAgree ==
    parse_pc = "done" => (by_cleaner = by_utils /\ by_utils = by_config)

---------------------------------------------------------------------------
\* co2tool/utils/data_utils.py: clean_numero_article_column

MaxKeyLen == 2
MaxKeyRows == 2

\* x.isdigit()
isdigit(x) == x # <<>> /\ AllDigits(x)

\* The number of "0" at the start of x.
RECURSIVE LeadingZeros(_)
LeadingZeros(x) ==
    IF x # <<>> /\ Head(x) = "0" THEN 1 + LeadingZeros(Tail(x)) ELSE 0

\* sub_leading_zeros taking every leading zero, also of a text of zeros.
sub_every_leading_zero(x) ==
    IF AllDigits(x) /\ Len(x) >= 2 /\ Head(x) = "0"
    THEN SubSeq(x, LeadingZeros(x) + 1, Len(x))
    ELSE x

\* re.sub(r'^0+(\d+)$', r'\1', x): the pattern matches a text of digits that
\* starts with "0" and has a digit after the zeros it takes; 0+ is greedy
\* and gives back one zero when the text is all zeros.
sub_leading_zeros(x) ==
    LET Without(zeros) == SubSeq(x, zeros + 1, Len(x))
    IN  IF AllDigits(x) /\ Len(x) >= 2 /\ Head(x) = "0"
        THEN Without(IF LeadingZeros(x) = Len(x) THEN Len(x) - 1 ELSE LeadingZeros(x))
        ELSE x

\* The lambda of line 76 on the text x.
clean_key(x) == IF isdigit(x) THEN sub_leading_zeros(x) ELSE x

\* clean_numero_article_column(df, col)
clean_numero_article_column(df, col) ==
    IF col \notin Range(df.cols) THEN df
    ELSE SetColumn(df, col,
                   [k \in DOMAIN df.rows |-> Str(clean_key(py_str(df.rows[k][col])))])

\* The article keys of the model: the texts over "0", "1", "a", the keys
\* written out and a missing value.
KeyChars == {"0", "1", "a"}

NamedKeys ==
    {<<"0", "0", "0", "0", "0", "0", "1", "2", "3", "4", "5", "6", "7">>,
     <<"0", "0", "0", "0">>,
     <<"0", "1", "2", "3">>,
     <<"0", "1", "0">>}

KeyTokens == {Str(x) : x \in SeqsUpTo(KeyChars, MaxKeyLen) \cup NamedKeys} \cup {NaN}

KeyTables ==
    {[cols |-> <<KeyCol, "LINE">>,
      rows |-> [k \in DOMAIN v |->
                   [numero_article |-> v[k], LINE |-> Str(NatStr(k))]]] :
        v \in SeqsUpTo(KeyTokens, MaxKeyRows)}
    \cup {[cols |-> <<"LINE">>, rows |-> <<[LINE |-> Str(<<"1">>)]>>]}

InitKey ==
    /\ key_df \in KeyTables
    /\ key_pc = "ready"
    /\ key_once = EmptyTable
    /\ key_twice = EmptyTable
    /\ LoaderIdle
    /\ ProcessorIdle
    /\ DateIdle
    /\ ParseIdle
    /\ AppIdle

\* key_once = clean_numero_article_column(key_df)
CleanKeys ==
    /\ key_pc = "ready"
    /\ key_once' = clean_numero_article_column(key_df, KeyCol)
    /\ key_pc' = "cleaned"
    /\ UNCHANGED <<key_df, key_twice, loaderVars, procVars, dateVars, parseVars,
                   appVars>>

\* key_twice = clean_numero_article_column(key_once)
CleanKeysAgain ==
    /\ key_pc = "cleaned"
    /\ key_twice' = clean_numero_article_column(key_once, KeyCol)
    /\ key_pc' = "recleaned"
    /\ UNCHANGED <<key_df, key_once, loaderVars, procVars, dateVars, parseVars,
                   appVars>>

NextKey ==
    \/ CleanKeys
    \/ CleanKeysAgain

SpecKey == InitKey /\ [][NextKey]_vars

---------------------------------------------------------------------------
\* Properties of clean_numero_article_column.

\* out is the text of digits x without its leading zeros, with at least one
\* digit kept.
StrippedOf(out, x) ==
    /\ out # <<>>
    /\ out = <<"0">> \/ Head(out) # "0"
    /\ Len(out) <= Len(x)
    /\ out = SubSeq(x, Len(x) - Len(out) + 1, Len(x))
    /\ \A k \in 1..(Len(x) - Len(out)) : x[k] = "0"

\* The cells of the key column of key_df are texts.
TextKeys == \A k \in DOMAIN key_df.rows : key_df.rows[k][KeyCol].t = "str"

\* C19: clean_numero_article_column maps an all-digit text to the same
\* digits without leading zeros, keeping at least one digit ('0000001234567'
\* gives '1234567', '0000' gives '0'), leaves a text with a non-digit
\* unchanged, and changes nothing when applied to its own result.
C19_KeyNormalization ==
    /\ (key_pc \in {"cleaned", "recleaned"} /\ KeyCol \in Range(key_df.cols) /\ TextKeys) =>
           /\ Len(key_once.rows) = Len(key_df.rows)
           /\ \A k \in DOMAIN key_df.rows :
                  LET x == key_df.rows[k][KeyCol].s
                      out == key_once.rows[k][KeyCol]
                  IN  /\ out.t = "str"
                      /\ key_once.rows[k]["LINE"] = key_df.rows[k]["LINE"]
                      /\ IF x # <<>> /\ AllDigits(x)
                         THEN StrippedOf(out.s, x)
                         ELSE out.s = x
                      /\ x = <<"0", "0", "0", "0", "0", "0", "1", "2", "3", "4", "5", "6", "7">>
                             => out.s = <<"1", "2", "3", "4", "5", "6", "7">>
                      /\ x = <<"0", "0", "0", "0">> => out.s = <<"0">>
    /\ key_pc = "recleaned" => key_twice = key_once

\* The keys '0000001234567' and '0000' have been normalized to '1234567' and
\* '0', and the result normalized again.
C19_Witness ==
    /\ key_pc = "recleaned"
    /\ Len(key_df.rows) = 2
    /\ key_df.rows[1][KeyCol] = Str(<<"0", "0", "0", "0", "0", "0", "1", "2", "3", "4", "5", "6", "7">>)
    /\ key_df.rows[2][KeyCol] = Str(<<"0", "0", "0", "0">>)
    /\ key_once.rows[1][KeyCol] = Str(<<"1", "2", "3", "4", "5", "6", "7">>)
    /\ key_once.rows[2][KeyCol] = Str(<<"0">>)
    /\ key_twice = key_once

---------------------------------------------------------------------------
\* co2tool/ui/main_window.py: from the billing files to the processed table.
\* on_billing_files_loaded calls load_billing_csv_files and keeps the table it
\* returns (apply_date_filtering passes a table without DATE_INVOICE through);
\* on_process_clicked hands that table and the loaded reference to
\* process_billing_with_co2.

\* The billing lines of the files: an article key, 4 units, unit price 100.
PipelineKeys == {<<"0", "1", "2", "3">>, <<"1", "2", "3">>, <<"9", "9", "9">>}

PipelineRow(key, k) ==
    [ID_MATERIAL |-> Str(key), QUANTITY |-> Str(<<"4">>),
     AMOUNT_NET |-> Str(<<"1", "0", "0">>), LINE |-> Str(NatStr(k))]

PipelineTables ==
    {[cols |-> RawCols, rows |-> [k \in DOMAIN r |-> PipelineRow(r[k], k)]] :
        r \in SeqsUpTo(PipelineKeys, MaxRows)}

PipelineFiles ==
    {[utf8 |-> u, latin1 |-> "ok", df |-> GoodTable] : u \in {"ok", "error"}}
    \cup {[utf8 |-> "UnicodeDecodeError", latin1 |-> "ok", df |-> t] :
             t \in PipelineTables}

\* The reference tables that load_co2_config_csv returns for the files
\* {'123': 1.5} and {'123': 1.5, '999': 2.0}.
PipelineRefs ==
    {[cols |-> <<"numero_article", "facteur_emission_co2">>, rows |-> r] :
        r \in {<<[numero_article |-> Str(<<"1", "2", "3">>),
                  facteur_emission_co2 |-> Flt(15, 1)]>>,
               <<[numero_article |-> Str(<<"1", "2", "3">>),
                  facteur_emission_co2 |-> Flt(15, 1)],
                 [numero_article |-> Str(<<"9", "9", "9">>),
                  facteur_emission_co2 |-> Flt(2, 0)]>>}}

InitPipeline ==
    /\ file_paths \in SeqsUpTo(PipelineFiles, MaxFiles)
    /\ pc = "loop"
    /\ i = 1
    /\ dataframes = <<>>
    /\ included_files = <<>>
    /\ excluded_files = <<>>
    /\ error = ""
    /\ df_all = EmptyTable
    /\ rapport = EmptyReport
    /\ ProcessorIdle
    /\ UtilIdle

\* self.df_billing = df_all and self.co2_config = the loaded reference.
Handoff ==
    /\ pc = "returned"
    /\ proc_pc = "idle"
    /\ df_billing' = df_all
    /\ df_co2' \in PipelineRefs
    /\ proc_pc' = "ready"
    /\ UNCHANGED <<filter_missing_articles, df_result, df_result2, loaderVars, utilVars>>

NextPipeline ==
    \/ ReadUtf8Ok
    \/ ReadFailed
    \/ ReadLatin1Fallback
    \/ RaiseNoValidFile
    \/ ReturnReport
    \/ Handoff
    \/ Process

SpecPipeline == InitPipeline /\ [][NextPipeline]_vars

---------------------------------------------------------------------------
\* Properties of the path from the files to the join.

\* The cell is an all-digit text with a leading zero and a digit after it.
HasLeadingZero(cell) ==
    cell.t = "str" /\ AllDigits(cell.s) /\ Len(cell.s) >= 2 /\ Head(cell.s) = "0"

\* The files hold the one billing line keyed '0123' (4 units, unit price 100)
\* and the reference is {'123': 1.5}.
OneLineKeyed0123 ==
    /\ Len(file_paths) = 1
    /\ file_paths[1].utf8 = "UnicodeDecodeError"
    /\ file_paths[1].df.rows = <<PipelineRow(<<"0", "1", "2", "3">>, 1)>>
    /\ Len(df_co2.rows) = 1

\* C20: article keys are canonicalized before the join: in the table that
\* load_billing_csv_files returns no all-digit key has a leading zero, and
\* the billing line keyed '0123' (4 units, unit price 100), processed
\* against the reference {'123': 1.5}, gives one matched row with
\* emission_co2 6.0.
C20_KeysCanonicalBeforeJoin ==
    /\ pc = "returned" =>
           \A k \in DOMAIN df_all.rows : ~HasLeadingZero(df_all.rows[k][KeyCol])
    /\ (proc_pc = "processed" /\ OneLineKeyed0123) =>
           /\ Len(df_result.rows) = 1
           /\ df_result.rows[1]["emission_co2"] = Flt(6, 0)

---------------------------------------------------------------------------
\* Properties of the numeric columns that load_billing_csv_files returns.

\* C21: in the table that load_billing_csv_files returns, quantity and unit
\* price of every row come from the numeric parser: neither column holds a
\* text, and a row of an included file whose quantity and price the parser
\* both converts is kept with the parsed price.
C21_NumericColumnsParsed ==
    /\ pc = "returned" =>
           \A k \in DOMAIN df_all.rows :
               /\ df_all.rows[k]["quantite"].t # "str"
               /\ df_all.rows[k]["prix"].t # "str"
    /\ \A j \in DOMAIN included_files :
           \A k \in DOMAIN file_paths[included_files[j]].df.rows :
               \E raw \in {file_paths[included_files[j]].df.rows[k]} :
                   (Convertible(raw["QUANTITY"]) /\ Convertible(raw["AMOUNT_NET"])) =>
                       \E n \in DOMAIN dataframes[j].rows :
                           /\ dataframes[j].rows[n]["LINE"] = raw["LINE"]
                           /\ dataframes[j].rows[n]["prix"] = try_parse_float(raw["AMOUNT_NET"])

\* The input files that contributed the rows of the combined table, row by
\* row: the included files, each repeated once per row of its table.
RECURSIVE SourceOfRows(_)
SourceOfRows(j) ==
    IF j > Len(dataframes) THEN <<>>
    ELSE [k \in DOMAIN dataframes[j].rows |-> included_files[j]] \o SourceOfRows(j + 1)

\* C22: every row of the combined table that load_billing_csv_files returns
\* carries, in the column SOURCE_FILE that the out-of-period summary of the
\* window reads, the input file the row was read from.
C22_SourceFileProvenance ==
    pc = "returned" =>
        /\ "SOURCE_FILE" \in Range(df_all.cols)
        /\ \A k \in DOMAIN df_all.rows :
               df_all.rows[k]["SOURCE_FILE"] = Str(NatStr(SourceOfRows(1)[k]))

\* C23: a billing file whose columns already include numero_article,
\* quantite and prix is accepted without renaming, and a decoded file is
\* rejected for its columns only when neither the internal names nor
\* ID_MATERIAL, QUANTITY, AMOUNT_NET are all present.
\* (The rows of the pre-normalized file of the model are all plain numerals,
\* so no row rejection stands in the way of its inclusion.)
C23_PreNormalizedAccepted ==
    /\ Finished =>
           \A k \in DOMAIN file_paths :
               (/\ file_paths[k].utf8 = "UnicodeDecodeError"
                /\ file_paths[k].latin1 = "ok"
                /\ required_cols \subseteq Range(file_paths[k].df.cols))
                   => k \in Range(included_files)
    /\ (pc = "raised" /\ error = "ValueError" /\ MissingColumns(file_paths[i].df) # <<>>)
           => ~(required_cols \subseteq Range(file_paths[i].df.cols))

---------------------------------------------------------------------------
\* co2tool/core/loader.py: load_co2_config_csv

MaxConfigRows == 2

mapping_possibles ==
    <<[Num_art |-> "numero_article", FE |-> "facteur_emission_co2"],
      [numero_article |-> "numero_article",
       facteur_emission_co2 |-> "facteur_emission_co2"]>>

\* FirstMatch that takes a mapping as soon as one of its keys is a column.
RECURSIVE FirstMatch_some_key(_, _)
FirstMatch_some_key(cols, k) ==
    IF k > Len(mapping_possibles) THEN 0
    ELSE IF DOMAIN mapping_possibles[k] \cap Range(cols) # {} THEN k
    ELSE FirstMatch_some_key(cols, k + 1)

\* Lines 118-122: the position of the first mapping, from position k on,
\* whose keys are all columns; 0 when the loop ends without break.
RECURSIVE FirstMatch(_, _)
FirstMatch(cols, k) ==
    IF k > Len(mapping_possibles) THEN 0
    ELSE IF DOMAIN mapping_possibles[k] \subseteq Range(cols) THEN k
    ELSE FirstMatch(cols, k + 1)

\* The ValueError of line 124.
SchemaError(cols) ==
    [exc |-> "ValueError", msg |-> "Colonnes attendues",
     expected |-> <<<<"numero_article", "facteur_emission_co2">>, <<"Num_art", "FE">>>>,
     found |-> cols]

\* The ValueError of line 153.
NoValidEntry ==
    [exc |-> "ValueError", msg |-> "Aucune entree de configuration CO2 valide",
     expected |-> <<>>, found |-> <<>>]

OtherError(exc) == [exc |-> exc, msg |-> "", expected |-> <<>>, found |-> <<>>]

\* Lines 139-143: the rows whose factor, as a text, holds no comma.
WithoutComma(df) ==
    SelectRows(df, {k \in DOMAIN df.rows : Count(py_str(df.rows[k][FactorCol]), ",") = 0})

\* Lines 145-151: the factor parsed, and the rows with a factor and a key.
ParsedEntries(df) ==
    LET Valid(d) ==
            SelectRows(d, {k \in DOMAIN d.rows :
                ~isnull(d.rows[k][FactorCol]) /\ ~isnull(d.rows[k][KeyCol])})
    IN  Valid(SetColumn(df, FactorCol,
                  [k \in DOMAIN df.rows |-> config_parse_float(df.rows[k][FactorCol])]))

\* load_co2_config_csv on the file f: the table returned, the mapping
\* applied and the exception raised.  After a rename that leaves two columns
\* named facteur_emission_co2, df["facteur_emission_co2"] is a DataFrame and
\* .str on line 139 raises AttributeError.
load_co2_config_csv(f) ==
    LET Result(df, m, err) == [df |-> df, mapping |-> m, err |-> err]
        Cleaned(df, m) ==
            IF df.rows = <<>> THEN Result(EmptyTable, m, NoValidEntry)
            ELSE Result(df, m, NoError)
        Mapped(m) ==
            IF m = 0 THEN Result(EmptyTable, 0, SchemaError(f.df.cols))
            ELSE IF Count([k \in DOMAIN f.df.cols |->
                              RenameCol(mapping_possibles[m], f.df.cols[k])], FactorCol) > 1
            THEN Result(EmptyTable, m, OtherError("AttributeError"))
            ELSE Cleaned(ParsedEntries(WithoutComma(Rename(f.df, mapping_possibles[m]))), m)
    IN  IF f.read # "ok" THEN Result(EmptyTable, 0, OtherError("read error"))
        ELSE Mapped(FirstMatch(f.df.cols, 1))

\* The reference files of the model: the column lists with one, both or
\* none of the candidate column sets, keys that are texts or missing, factors
\* that are numerals, texts or missing.
ConfigColumns ==
    {<<"Num_art", "FE">>, <<"Num_art", "FE", "categorie">>,
     <<"numero_article", "facteur_emission_co2">>,
     <<"numero_article", "categorie">>, <<"Num_art", "facteur_emission_co2">>,
     <<"Num_art", "FE", "numero_article", "facteur_emission_co2">>}

ConfigKeys == {Str(<<"7">>), Str(<<"8">>), NaN}

ConfigFactors ==
    {Str(<<"2">>), Str(<<"1", ".", "5">>), Str(<<"1", ",", "5">>),
     Str(<<"a", "b", "c">>), NaN}

ConfigFiles ==
    {[read |-> "error", df |-> EmptyTable]}
    \cup {[read |-> "ok",
           df |-> [cols |-> cols,
                   rows |-> [k \in DOMAIN v |->
                       [c \in Range(cols) |->
                           CASE c \in {"Num_art", "numero_article"} -> v[k][1]
                             [] c \in {"FE", "facteur_emission_co2"} -> v[k][2]
                             [] c = "categorie" -> Str(<<"A">>)]]]] :
            cols \in ConfigColumns,
            v \in SeqsUpTo(ConfigKeys \X ConfigFactors, MaxConfigRows)}

InitConfig ==
    /\ config_path \in ConfigFiles
    /\ cfg_pc = "ready"
    /\ cfg_mapping = 0
    /\ co2_config = EmptyTable
    /\ cfg_error = NoError
    /\ LoaderIdle
    /\ ProcessorIdle
    /\ DateIdle
    /\ ParseIdle
    /\ KeyIdle
    /\ EncodingIdle
    /\ WindowIdle

\* co2_config = load_co2_config_csv(config_path)
LoadConfig ==
    /\ cfg_pc = "ready"
    /\ \E r \in {load_co2_config_csv(config_path)} :
           /\ cfg_mapping' = r.mapping
           /\ cfg_error' = r.err
           /\ co2_config' = r.df
           /\ cfg_pc' = IF r.err = NoError THEN "returned" ELSE "raised"
    /\ UNCHANGED <<config_path, loaderVars, procVars, dateVars, parseVars, keyVars,
                   encVars, winVars>>

NextConfig == LoadConfig

SpecConfig == InitConfig /\ [][NextConfig]_vars

---------------------------------------------------------------------------
\* Properties of load_co2_config_csv.

\* The call has ended on a file that pd.read_csv read.
ConfigRead == cfg_pc \in {"returned", "raised"} /\ config_path.read = "ok"

\* The candidate column sets, in the order in which they are tried.
CandidateKeys == <<{"Num_art", "FE"}, {"numero_article", "facteur_emission_co2"}>>

\* The candidates whose columns are all in the file.
Matching == {k \in DOMAIN CandidateKeys : CandidateKeys[k] \subseteq Range(config_path.df.cols)}

\* C24: load_co2_config_csv tries {Num_art, FE} first and the canonical names
\* second and applies the first candidate whose keys are all columns of the
\* file; when none matches it fails with an error that names both candidates
\* and the columns found.
C24_FirstMatchingMappingApplied ==
    ConfigRead =>
        /\ Matching # {} =>
               /\ cfg_mapping \in Matching
               /\ \A k \in Matching : cfg_mapping <= k
               /\ cfg_error.msg # "Colonnes attendues"
               /\ cfg_pc = "returned" =>
                      /\ KeyCol \in Range(co2_config.cols)
                      /\ FactorCol \in Range(co2_config.cols)
                      /\ \A c \in CandidateKeys[1] : c \notin Range(co2_config.cols)
        /\ Matching = {} =>
               /\ cfg_mapping = 0
               /\ cfg_pc = "raised"
               /\ cfg_error.exc = "ValueError"
               /\ \A k \in DOMAIN CandidateKeys :
                      \E e \in Range(cfg_error.expected) : Range(e) = CandidateKeys[k]
               /\ cfg_error.found = config_path.df.cols

\* A file with both column sets has been taken through the first mapping.
C24_Witness ==
    /\ ConfigRead
    /\ Matching = {1, 2}
    /\ cfg_mapping = 1

\* The key and the factor of the rows of the file, under the mapping applied.
RawEntries ==
    [k \in DOMAIN config_path.df.rows |->
        <<config_path.df.rows[k][IF cfg_mapping = 1 THEN "Num_art" ELSE KeyCol],
          config_path.df.rows[k][IF cfg_mapping = 1 THEN "FE" ELSE FactorCol]>>]

\* The entries with a key and a factor that the numeric parser converts,
\* with the parsed factor.
ValidEntries ==
    LET Parsed(es) == [k \in DOMAIN es |-> <<es[k][1], parse_float(es[k][2])>>]
    IN  Parsed(SelectSeq(RawEntries,
                         LAMBDA e : ~isnull(e[1]) /\ parse_float(e[2]).t = "float"))

\* C25: the table that load_co2_config_csv returns holds exactly the rows of
\* the file with a present article key and a factor that the numeric parser
\* converts (comma decimal '1,5' included), each with its parsed factor; when
\* no such row exists the call fails with the no-valid-data error.
C25_ReferenceRowsValidated ==
    (ConfigRead /\ cfg_mapping # 0 /\ cfg_error.exc # "AttributeError") =>
        /\ cfg_pc = "returned" =>
               \A k \in DOMAIN co2_config.rows :
                   /\ ~isnull(co2_config.rows[k][KeyCol])
                   /\ co2_config.rows[k][FactorCol].t = "float"
        /\ ValidEntries = <<>> => cfg_pc = "raised" /\ cfg_error = NoValidEntry
        /\ ValidEntries # <<>> =>
               /\ cfg_pc = "returned"
               /\ [k \in DOMAIN co2_config.rows |->
                      <<co2_config.rows[k][KeyCol], co2_config.rows[k][FactorCol]>>]
                      = ValidEntries

---------------------------------------------------------------------------
\* co2tool/utils/data_utils.py: load_csv_with_encoding

encodings == <<"utf8", "latin1">>

\* UnicodeDecodeError(message): the constructor takes five arguments
\* (encoding, object, start, end, reason) and raises TypeError when it is
\* given one, so the raise statement of line 60 raises TypeError.
AllEncodingsFailed == OtherError("TypeError")

\* The files of the model: each read returns the table, raises
\* UnicodeDecodeError, or raises another exception ("error").
EncodedFiles ==
    {[utf8 |-> u, latin1 |-> l, df |-> t] :
        u \in {"ok", "UnicodeDecodeError", "error"},
        l \in {"ok", "UnicodeDecodeError", "error"},
        t \in RawTables}

InitEncoding ==
    /\ enc_file \in EncodedFiles
    /\ enc_pc = "loop"
    /\ enc_i = 1
    /\ enc_result = NoDecode
    /\ enc_error = NoError
    /\ LoaderIdle
    /\ ProcessorIdle
    /\ DateIdle
    /\ ParseIdle
    /\ KeyIdle
    /\ ConfigIdle
    /\ WindowIdle

\* Lines 53-57: one iteration of the loop over encodings.
TryEncoding ==
    /\ enc_pc = "loop" /\ enc_i <= Len(encodings)
    /\ \E outcome \in {enc_file[encodings[enc_i]]} :
           CASE outcome = "ok" ->
                    /\ enc_pc' = "returned"
                    /\ enc_result' = [encoding |-> encodings[enc_i], df |-> enc_file.df]
                    /\ UNCHANGED <<enc_i, enc_error>>
             [] outcome = "UnicodeDecodeError" ->
                    /\ enc_i' = enc_i + 1
                    /\ UNCHANGED <<enc_pc, enc_result, enc_error>>
             [] OTHER ->
                    /\ enc_pc' = "raised"
                    /\ enc_error' = OtherError("read error")
                    /\ UNCHANGED <<enc_i, enc_result>>
    /\ UNCHANGED <<enc_file, loaderVars, procVars, dateVars, parseVars, keyVars, cfgVars,
                   winVars>>

\* Line 60.
RaiseAllFailed ==
    /\ enc_pc = "loop" /\ enc_i > Len(encodings)
    /\ enc_pc' = "raised"
    /\ enc_error' = AllEncodingsFailed
    /\ UNCHANGED <<enc_file, enc_i, enc_result, loaderVars, procVars, dateVars,
                   parseVars, keyVars, cfgVars, winVars>>

NextEncoding ==
    \/ TryEncoding
    \/ RaiseAllFailed

SpecEncoding == InitEncoding /\ [][NextEncoding]_vars

---------------------------------------------------------------------------
\* Properties of load_csv_with_encoding.

\* Every read of the file either decodes or fails to decode.
DecodeOutcomesOnly ==
    \A e \in Range(encodings) : enc_file[e] \in {"ok", "UnicodeDecodeError"}

\* C26: load_csv_with_encoding tries utf-8 and then latin1 and returns the
\* table of the first encoding that decodes; it fails only when every
\* encoding failed to decode, with a decode error that names the encodings
\* tried.
C26_FirstDecodingEncodingWins ==
    (enc_pc \in {"returned", "raised"} /\ DecodeOutcomesOnly) =>
        /\ enc_file.utf8 = "ok" =>
               enc_pc = "returned" /\ enc_result = [encoding |-> "utf8", df |-> enc_file.df]
        /\ (enc_file.utf8 # "ok" /\ enc_file.latin1 = "ok") =>
               enc_pc = "returned" /\ enc_result = [encoding |-> "latin1", df |-> enc_file.df]
        /\ enc_pc = "raised" =>
               /\ \A e \in Range(encodings) : enc_file[e] = "UnicodeDecodeError"
               /\ enc_error.exc = "UnicodeDecodeError"
               /\ enc_error.found = encodings

---------------------------------------------------------------------------
\* The separator rules of the numeric parser, as a reference.

\* The four rules in their priority order, on a text without whitespace.
ReferenceSeparators(s) ==
    IF MatchGrouped(s) THEN Remove(s, ",")
    ELSE IF Count(s, ",") = 1 /\ Count(s, ".") = 0 THEN Replace(s, ",", ".")
    ELSE IF Count(s, ".") > 1 THEN KeepLastDot(s)
    ELSE Remove(s, ",")

ReferenceParse(val) ==
    IF isnull(val) THEN None
    ELSE NoneIfRaised(PyFloat(ReferenceSeparators(Unspaced(val))))

\* C27: after whitespace removal the numeric parser resolves the separators
\* by four rules in priority order (comma-grouped pattern: commas removed;
\* else one comma and no dot: decimal comma; else several dots: last dot
\* kept; otherwise every remaining comma removed), then converts or returns
\* absent; try_parse_float and parse_float return the reference's result for
\* every token.
C27_SeparatorPriority ==
    /\ parse_pc \in {"utils", "config", "done"} => by_cleaner = ReferenceParse(token)
    /\ parse_pc \in {"config", "done"} => by_utils = ReferenceParse(token)

---------------------------------------------------------------------------
\* The row count of the join.

\* C28: process_billing_with_co2 never multiplies billing rows: without the
\* filter it returns one row per billing row in the billing table's order,
\* with the filter at most one row per billing row, also for a reference that
\* lists an article key more than once.
C28_JoinKeepsRowCount ==
    proc_pc = "processed" =>
        /\ ~filter_missing_articles => LineSeq(df_result) = LineSeq(df_billing)
        /\ \A k \in DOMAIN df_billing.rows :
               Cardinality({n \in DOMAIN df_result.rows :
                   df_result.rows[n]["LINE"] = df_billing.rows[k]["LINE"]}) <= 1

---------------------------------------------------------------------------
\* co2tool/ui/main_window.py: MainWindow
\*
\* The tables are named, not held: a loaded batch is [id, dated, sourced]
\* (dated: it has the column DATE_INVOICE; sourced: its files carry a column
\* SOURCE_FILE of their own, which the loader passes through), a billing
\* table is the batch with the part of it that is kept, a result is the
\* billing table, the reference and the mode it was computed from.

MaxBatches == 2
MaxConfigs == 2
Windows == {1, 2}

Batches == [id : 1..MaxBatches, dated : BOOLEAN, sourced : BOOLEAN]

Configs == [config : 1..MaxConfigs]

\* apply_date_filtering(df) with out: the window leaves rows of df outside.
\* Line 214 reads self.df_non_period['SOURCE_FILE'] and raises KeyError on a
\* table without that column, after lines 198-203 have assigned.
apply_date_filtering(df, enabled, window, out) ==
    IF enabled /\ df.dated
    THEN [billing |-> [batch |-> df, kept |-> "in period", window |-> window],
          non_period |-> [batch |-> df, kept |-> "out of period", window |-> window],
          exc |-> IF out /\ ~df.sourced THEN "KeyError" ELSE ""]
    ELSE [billing |-> [batch |-> df, kept |-> "all", window |-> 0],
          non_period |-> None, exc |-> ""]

\* update_process_button_state
buttons_enabled(billing, config) == billing # None /\ config # None

\* The state after __init__ (lines 93-140); app_config comes from the saved
\* configuration.
InitWindow ==
    /\ self_df_billing_raw = None
    /\ self_df_billing = None
    /\ self_df_non_period = None
    /\ self_co2_config = None
    /\ self_df_result = None
    /\ process_buttons_enabled = FALSE
    /\ export_button_enabled = FALSE
    /\ filter_enabled \in BOOLEAN
    /\ filter_window \in Windows
    /\ win_pc = "shown"
    /\ LoaderIdle
    /\ ProcessorIdle
    /\ DateIdle
    /\ ParseIdle
    /\ KeyIdle
    /\ ConfigIdle
    /\ EncodingIdle

\* on_billing_files_loaded where load_billing_csv_files returns the batch df.
BillingFilesLoaded ==
    /\ win_pc = "shown"
    /\ \E df \in Batches, out \in BOOLEAN :
       \E r \in {apply_date_filtering(df, filter_enabled, filter_window, out)} :
           /\ self_df_billing_raw' = df
           /\ self_df_billing' = IF r.exc = "" THEN r.billing ELSE None
           /\ self_df_non_period' = IF r.exc = "" THEN r.non_period ELSE None
           /\ process_buttons_enabled' =
                  buttons_enabled(IF r.exc = "" THEN r.billing ELSE None, self_co2_config)
    /\ UNCHANGED <<self_co2_config, self_df_result, export_button_enabled, filter_enabled,
                   filter_window, win_pc>>
    /\ UNCHANGED <<loaderVars, procVars, dateVars, parseVars, keyVars, cfgVars, encVars>>

\* on_billing_files_loaded where load_billing_csv_files raises: lines 236-237
\* and 246-255.
BillingLoadFailed ==
    /\ win_pc = "shown"
    /\ self_df_billing' = None
    /\ self_df_non_period' = None
    /\ process_buttons_enabled' = buttons_enabled(None, self_co2_config)
    /\ UNCHANGED <<self_df_billing_raw, self_co2_config, self_df_result,
                   export_button_enabled, filter_enabled, filter_window, win_pc>>
    /\ UNCHANGED <<loaderVars, procVars, dateVars, parseVars, keyVars, cfgVars, encVars>>

\* on_config_loaded: the reference c is loaded, or load_co2_config_csv raises.
ConfigLoaded ==
    /\ win_pc = "shown"
    /\ \E config \in Configs \cup {None} :
           /\ self_co2_config' = config
           /\ process_buttons_enabled' = buttons_enabled(self_df_billing, config)
    /\ UNCHANGED <<self_df_billing_raw, self_df_billing, self_df_non_period,
                   self_df_result, export_button_enabled, filter_enabled, filter_window,
                   win_pc>>
    /\ UNCHANGED <<loaderVars, procVars, dateVars, parseVars, keyVars, cfgVars, encVars>>

\* on_apply_date_filter: the checkbox and the two date fields are copied to
\* app_config and the raw table, if there is one, is filtered again.  A
\* KeyError of apply_date_filtering leaves the slot; nothing is undone.
ApplyDateFilter ==
    /\ win_pc = "shown"
    /\ \E enabled \in BOOLEAN, window \in Windows, out \in BOOLEAN :
           /\ filter_enabled' = enabled
           /\ filter_window' = window
           /\ IF self_df_billing_raw # None
              THEN \E r \in {apply_date_filtering(self_df_billing_raw, enabled, window, out)} :
                       /\ self_df_billing' = r.billing
                       /\ self_df_non_period' = r.non_period
              ELSE UNCHANGED <<self_df_billing, self_df_non_period>>
    /\ UNCHANGED <<self_df_billing_raw, self_co2_config, self_df_result,
                   process_buttons_enabled, export_button_enabled, win_pc>>
    /\ UNCHANGED <<loaderVars, procVars, dateVars, parseVars, keyVars, cfgVars, encVars>>

\* on_process_clicked, reached through one of the two processing buttons;
\* process_billing_with_co2 returns or raises.
ProcessClicked ==
    /\ win_pc = "shown"
    /\ process_buttons_enabled
    /\ \E filter_missing \in BOOLEAN, returns \in BOOLEAN :
           IF self_df_billing # None /\ self_co2_config # None
           THEN IF returns
                THEN /\ self_df_result' = [billing |-> self_df_billing,
                                           co2 |-> self_co2_config,
                                           filter_missing |-> filter_missing]
                     /\ export_button_enabled' = TRUE
                ELSE /\ self_df_result' = None
                     /\ export_button_enabled' = FALSE
           ELSE UNCHANGED <<self_df_result, export_button_enabled>>
    /\ UNCHANGED <<self_df_billing_raw, self_df_billing, self_df_non_period,
                   self_co2_config, process_buttons_enabled, filter_enabled,
                   filter_window, win_pc>>
    /\ UNCHANGED <<loaderVars, procVars, dateVars, parseVars, keyVars, cfgVars, encVars>>

NextWindow ==
    \/ BillingFilesLoaded
    \/ BillingLoadFailed
    \/ ConfigLoaded
    \/ ApplyDateFilter
    \/ ProcessClicked

SpecWindow == InitWindow /\ [][NextWindow]_vars

---------------------------------------------------------------------------
\* Properties of the main window.

\* C29: after any sequence of window events the two processing buttons are
\* enabled exactly when the window holds a billing table and a CO2 reference.
C29_ProcessButtonsFollowInputs ==
    win_pc = "shown" =>
        (process_buttons_enabled <=> (self_df_billing # None /\ self_co2_config # None))

\* C30: whenever the export button is enabled, df_result is not None and is
\* the outcome of processing the billing table and the reference that the
\* window holds.
C30_ExportedResultIsCurrent ==
    (win_pc = "shown" /\ export_button_enabled) =>
        /\ self_df_result # None
        /\ self_df_result.billing = self_df_billing
        /\ self_df_result.co2 = self_co2_config

=============================================================================
